---- MODULE Spec2Model ----
(***************************************************************************)
(* Quantum tic-tac-toe: the rules engine (move ledger, entanglement graph, *)
(* cycle detector, collapse option generator, collapse applier) together   *)
(* with the client-side type definitions of src/types/gameTypes.js and the *)
(* board projection of src/hooks/useGameState.js.                          *)
(*                                                                         *)
(* The Python engine (python/quantum_game.py, python/api.py) is not part   *)
(* of the sources at hand; its operations are modelled from spec.md and    *)
(* are built on the data types that gameTypes.js defines.                  *)
(***************************************************************************)
EXTENDS Integers, Sequences, FiniteSets, TLC

VARIABLES
    moves,           \* the move ledger: sequence of QuantumMove records
    board,           \* classical projection: cell -> "X" | "O" | NoPlayer
    entanglements,   \* set of Entanglement records, maintained incrementally
    pendingCycle,    \* the EntanglementCycle awaiting a choice, or NoCycle
    collapseOptions, \* options generated for pendingCycle (sequence)
    currentPlayer,   \* whose turn it is
    moveCount,       \* number of accepted quantum moves
    lastResult,      \* outcome of the last request: [op, ok, option, cycleIds]
    answer,          \* what the last query (getState, getWinner) returned
    client,          \* the state of the client's hooks (useGameState.js)
    calls,           \* the client's requests on their way: [kind, args, phase, res]
    sent             \* number of requests the player of the client has caused

\* what a move, a collapse and a reset leave alone
queryVars == <<answer, client>>

\* the requests of the client, untouched where the engine is called directly
wire == <<calls, sent>>

vars == <<moves, board, entanglements, pendingCycle, collapseOptions,
          currentPlayer, moveCount, lastResult, answer, client, calls, sent>>

---------------------------------------------------------------------------
(* Bounds of the model *)

\* at most this many moves are accepted in one game
MaxMoves == 5

\* moves are requested on the first NumPlayPairs pairs of PairOrder
NumPlayPairs == 7

\* games in which the applier is called on its own have at most this many moves
MaxApplyMoves == 4

\* the evaluator is tried on every board under the first NumEvalVariants
\* move histories of EvalVariants
NumEvalVariants == 4

\* pairs of PairOrder played before and between resets
NumResetPairs == 4

\* pairs of PairOrder played before a query
NumQueryPairs == 5

\* pairs of PairOrder that the player of the client picks
NumClientPairs == 3

\* requests of the client that can be on their way at a time
MaxInFlight == 2

\* requests that the player of the client causes in one run
MaxRequests == 4

\* clients that use the API at the same time
NumSessions == 2

---------------------------------------------------------------------------
(* Program constants *)

BOARD_SIZE == 9

\* one cell more than a move needs
MIN_SQUARES_FOR_MOVE_Three == BOARD_SIZE \div 3

\* src/constants/gameConstants.js
MIN_SQUARES_FOR_MOVE == 2

\* a cap below the two orientations of a loop
MAX_COLLAPSE_OPTIONS_One == MIN_SQUARES_FOR_MOVE - 1

MAX_COLLAPSE_OPTIONS == 4

\* finalSquare = null, getOtherSquare(...) = null
NULL == -1

\* board[i] = null / no player
NoPlayer == "none"

PLAYERS == {"X", "O"}

Cells == 0 .. (BOARD_SIZE - 1)

\* the pairs of squares that are requested, as (square1, square2)
PairOrder == << <<0, 4>>, <<4, 8>>, <<8, 0>>, <<0, 1>>, <<1, 2>>,
               <<2, 3>>, <<3, 0>>, <<4, 1>> >>

PlayPairs == {PairOrder[i] : i \in 1 .. (IF NumPlayPairs < Len(PairOrder)
                                         THEN NumPlayPairs ELSE Len(PairOrder))}

PlayCells == UNION {{p[1], p[2]} : p \in PlayPairs}

\* requests: the play pairs, one with twice the same square and one with an
\* index off the board
MoveInputs == PlayPairs \cup {<<0, 0>>, <<0, BOARD_SIZE>>}

Other(player) == IF player = "X" THEN "O" ELSE "X"

---------------------------------------------------------------------------
(* src/types/gameTypes.js *)

\* isValidSquare with the upper bound off by one: sq <= 9
isValidSquare_OffByOne(sq) == sq \in 0 .. BOARD_SIZE

\* Number.isInteger(sq) && sq >= 0 && sq <= 8
isValidSquare(sq) == sq \in Int /\ sq >= 0 /\ sq <= 8

\* the range check of isValidQuantumMove left out
isValidQuantumMove_NoRange(squares) ==
    /\ Len(squares) = 2
    /\ squares[1] # squares[2]

isValidQuantumMove(squares) ==
    /\ Len(squares) = 2
    /\ \A i \in 1 .. Len(squares) : isValidSquare(squares[i])
    /\ squares[1] # squares[2]

\* Array.prototype.sort() on two single-digit numbers: the default comparison
\* is on the decimal strings, which for 0..9 is the numeric order
SortSquares(squares) ==
    IF squares[1] <= squares[2] THEN squares ELSE <<squares[2], squares[1]>>

\* the constructor throws on squares.length !== 2 || squares[0] === squares[1]
QuantumMoveThrows(squares) == Len(squares) # 2 \/ squares[1] = squares[2]

\* new QuantumMove(player, moveNum, squares); the id `${player}${moveNum}` is
\* kept as the pair <<player, moveNum>>
QuantumMove(player, moveNum, squares) ==
    [id |-> <<player, moveNum>>,
     player |-> player,
     moveNumber |-> moveNum,
     squares |-> SortSquares(squares),
     collapsed |-> FALSE,
     finalSquare |-> NULL]

\* hasSquare answering for any square of the board
hasSquare_AnyValid(m, sq) == isValidSquare(sq)

hasSquare(m, sq) == \E i \in 1 .. Len(m.squares) : m.squares[i] = sq

\* the guard of collapse dropped
collapseThrows_Never(m, sq) == FALSE

\* collapse(sq) throws when the move does not have the square
collapseThrows(m, sq) == ~hasSquare(m, sq)

\* collapse keeping the first square whatever the argument
collapse_First(m, sq) == [m EXCEPT !.collapsed = TRUE, !.finalSquare = m.squares[1]]

\* collapse(sq), past the throw: no check of this.collapsed
collapse(m, sq) == [m EXCEPT !.collapsed = TRUE, !.finalSquare = sq]

\* getOtherSquare answering the square it was given
getOtherSquare_Same(m, sq) == IF ~hasSquare(m, sq) THEN NULL ELSE sq

\* squares.find(s => s !== sq)
getOtherSquare(m, sq) ==
    IF ~hasSquare(m, sq) THEN NULL
    ELSE IF m.squares[1] # sq THEN m.squares[1]
    ELSE IF m.squares[2] # sq THEN m.squares[2]
    ELSE NULL

\* new ClassicalMove(player, square, fromQuantumId)
ClassicalMove(player, square, fromQuantumId) ==
    [player |-> player, square |-> square, fromQuantumId |-> fromQuantumId]

\* string order of two move ids: "O.." < "X..", then the (single digit) number
IdLess(a, b) ==
    \/ a[1] = "O" /\ b[1] = "X"
    \/ a[1] = b[1] /\ a[2] < b[2]

\* new Entanglement(move1Id, move2Id, sharedSquare): ids stored sorted
Entanglement(move1Id, move2Id, sharedSquare) ==
    [move1Id |-> IF IdLess(move2Id, move1Id) THEN move2Id ELSE move1Id,
     move2Id |-> IF IdLess(move2Id, move1Id) THEN move1Id ELSE move2Id,
     sharedSquare |-> sharedSquare]

involves(e, moveId) == e.move1Id = moveId \/ e.move2Id = moveId

\* getOther(moveId), for a move of the entanglement
getOther(e, moveId) == IF e.move1Id = moveId THEN e.move2Id ELSE e.move1Id

\* the cycle's player read from the last listed move instead of the trigger
EntanglementCycle_LastMove(moveIds, ents, triggerMoveId) ==
    [moveIds |-> moveIds,
     entanglements |-> ents,
     triggerMoveId |-> triggerMoveId,
     triggerPlayer |-> moveIds[Len(moveIds)][1]]

\* new EntanglementCycle(moveIds, entanglements, triggerMoveId);
\* triggerPlayer = triggerMoveId.charAt(0)
EntanglementCycle(moveIds, ents, triggerMoveId) ==
    [moveIds |-> moveIds,
     entanglements |-> ents,
     triggerMoveId |-> triggerMoveId,
     triggerPlayer |-> triggerMoveId[1]]

\* getCollapsePlayer answering the player who triggered the cycle
getCollapsePlayer_Same(cycle) == cycle.triggerPlayer

getCollapsePlayer(cycle) == IF cycle.triggerPlayer = "X" THEN "O" ELSE "X"

\* pendingCycle: null
NoCycle == [moveIds |-> <<>>, entanglements |-> {}, triggerMoveId |-> <<>>,
            triggerPlayer |-> NoPlayer]

\* the empty assignment
EmptyOption == [id \in {} |-> NULL]

GAME_STATUS ==
    [PLAYING |-> "playing",
     WAITING_COLLAPSE |-> "waiting_collapse",
     X_WINS |-> "x_wins",
     O_WINS |-> "o_wins",
     DRAW |-> "draw"]

\* createGameState() with the player of the last game kept to move
createGameState_OStarts ==
    [status |-> GAME_STATUS.PLAYING,
     currentPlayer |-> "O",
     quantumMoves |-> <<>>,
     entanglements |-> {},
     pendingCycle |-> NoCycle,
     collapseOptions |-> <<>>,
     selectedSquares |-> <<>>,
     winner |-> NoPlayer,
     winningLine |-> <<>>,
     moveCount |-> 0]

\* createGameState(): the fields the engine and the client keep
createGameState ==
    [status |-> GAME_STATUS.PLAYING,
     currentPlayer |-> "X",
     quantumMoves |-> <<>>,
     entanglements |-> {},
     pendingCycle |-> NoCycle,
     collapseOptions |-> <<>>,
     selectedSquares |-> <<>>,
     winner |-> NoPlayer,
     winningLine |-> <<>>,
     moveCount |-> 0]

\* no game state received, no error shown
NoGameState == [op |-> "none"]
NoError == "none"

\* useGameState(): the hook's state when it is mounted, with the error state
\* of useQuantumAPI
useGameState ==
    [gameState |-> createGameState,
     selectedSquares |-> <<>>,
     apiGameState |-> NoGameState,
     userError |-> NoError,
     loading |-> FALSE,
     error |-> NoError]

---------------------------------------------------------------------------
(* src/hooks/useGameState.js: the board the client displays *)

Range(f) == {f[x] : x \in DOMAIN f}

\* the filter dropped: every move of the list is drawn as a quantum mark
showsAsQuantum_Always(move) == TRUE

\* if (!move.collapsed)
showsAsQuantum(move) == ~move.collapsed

\* the classical pass of buildBoardFromAPI: player !== null && !== undefined
isClassicalCell(apiBoard, index) == apiBoard[index] # NoPlayer

\* the quantum pass of buildBoardFromAPI over the first k moves, for one
\* cell: one push of move_id per listed square equal to the cell
RECURSIVE quantumMoveIdsAt(_, _, _, _)
quantumMoveIdsAt(apiBoard, apiMoves, index, k) ==
    IF k = 0 THEN <<>>
    ELSE LET prev == quantumMoveIdsAt(apiBoard, apiMoves, index, k - 1)
             move == apiMoves[k]
             hits == SelectSeq(move.squares, LAMBDA sq : sq = index)
         IN IF showsAsQuantum(move) /\ ~isClassicalCell(apiBoard, index)
            THEN prev \o [j \in 1 .. Len(hits) |-> move.id]
            ELSE prev

\* buildBoardFromAPI(apiGameState): SQUARE_STATES has no EMPTY member, so an
\* untouched cell keeps state undefined
buildBoardFromAPI(apiBoard, apiMoves) ==
    [index \in Cells |->
        LET ids == quantumMoveIdsAt(apiBoard, apiMoves, index, Len(apiMoves))
        IN [quantumMoveIds |-> ids,
            classicalMoveId |-> apiBoard[index],
            state |-> IF isClassicalCell(apiBoard, index) THEN "classical"
                      ELSE IF Len(ids) > 0 THEN "quantum"
                      ELSE "undefined"]]

---------------------------------------------------------------------------
(* The move ledger *)

IndicesOf(ms) == 1 .. Len(ms)

IdsOf(ms) == {ms[i].id : i \in IndicesOf(ms)}

MoveById(ms, id) == ms[CHOOSE i \in IndicesOf(ms) : ms[i].id = id]

IndexOfId(ms, id) == CHOOSE i \in IndicesOf(ms) : ms[i].id = id

UnresolvedMoves(ms) == SelectSeq(ms, LAMBDA m : ~m.collapsed)

SquaresOf(m) == Range(m.squares)

\* a cell already holds a classical mark
isClassical(brd, sq) == sq \in DOMAIN brd /\ brd[sq] # NoPlayer

\* sequence number of the next move of a player: "X1", "O1", "X2", ...
NextMoveNumber(ms, player) ==
    Cardinality({i \in IndicesOf(ms) : ms[i].player = player}) + 1

\* the check for an occupied pair left out
DuplicatesUnresolved_Never(ms, squares) == FALSE

\* an unresolved move already occupies the same unordered pair
DuplicatesUnresolved(ms, squares) ==
    \E i \in IndicesOf(ms) :
        ~ms[i].collapsed /\ ms[i].squares = SortSquares(squares)

\* the checks of makeQuantumMove, on top of the type's own
MoveIsValid(ms, brd, squares) ==
    /\ isValidQuantumMove(squares)
    /\ ~QuantumMoveThrows(squares)
    /\ \A i \in 1 .. Len(squares) : ~isClassical(brd, squares[i])
    /\ ~DuplicatesUnresolved(ms, squares)

---------------------------------------------------------------------------
(* The entanglement graph *)

\* edges the graph gains when move m is inserted next to the moves ms
NewEntanglements(ms, m) ==
    {Entanglement(m.id, ms[i].id, sq) :
        <<i, sq>> \in {p \in IndicesOf(ms) \X SquaresOf(m) :
                          /\ ~ms[p[1]].collapsed
                          /\ ms[p[1]].id # m.id
                          /\ hasSquare(ms[p[1]], p[2])}}

\* a sequence listing the elements of a finite set of integers, ascending
RECURSIVE SortedSeq(_)
SortedSeq(S) ==
    IF S = {} THEN <<>>
    ELSE LET least == CHOOSE x \in S : \A y \in S : x <= y
         IN <<least>> \o SortedSeq(S \ {least})

\* the edges at a node, ordered by the other move's place in the ledger and
\* then by shared cell
EdgesAt(node, ents, ms) ==
    LET mine == {e \in ents : involves(e, node)}
        rank(e) == IndexOfId(ms, getOther(e, node)) * BOARD_SIZE + e.sharedSquare
        ranks == SortedSeq({rank(e) : e \in mine})
    IN [k \in 1 .. Len(ranks) |-> CHOOSE e \in mine : rank(e) = ranks[k]]

---------------------------------------------------------------------------
(* The cycle detector: depth-first traversal with path tracking *)

NoPath == [ids |-> <<>>, ents |-> {}]

\* placeholder for the edge that led to the start node
NoEntanglement == [move1Id |-> <<>>, move2Id |-> <<>>, sharedSquare |-> NULL]

PositionIn(path, id) == CHOOSE k \in 1 .. Len(path) : path[k] = id

RECURSIVE DfsVisit(_, _, _, _, _, _)
RECURSIVE DfsEdges(_, _, _, _, _, _, _)

\* visit node, reached over the entanglements `via` (a set: empty at the
\* start); path lists the nodes from the start to node, pathEnts[k] is the
\* entanglement that led to path[k]
DfsVisit(node, via, path, pathEnts, ents, ms) ==
    LET all == EdgesAt(node, ents, ms)
        edges == SelectSeq(all, LAMBDA e : e \notin via)
    IN DfsEdges(edges, 1, node, path, pathEnts, ents, ms)

\* try the edges of node from the k-th on; the first edge that leads back to
\* a node of the path closes the walk
DfsEdges(edges, k, node, path, pathEnts, ents, ms) ==
    IF k > Len(edges) THEN NoPath
    ELSE LET e == edges[k]
             next == getOther(e, node)
         IN IF next \in Range(path)
            THEN LET from == PositionIn(path, next)
                 IN [ids |-> SubSeq(path, from, Len(path)),
                     ents |-> {pathEnts[j] : j \in (from + 1) .. Len(path)} \cup {e}]
            ELSE LET found == DfsVisit(next, {e}, Append(path, next),
                                       Append(pathEnts, e), ents, ms)
                 IN IF found # NoPath THEN found
                    ELSE DfsEdges(edges, k + 1, node, path, pathEnts, ents, ms)

\* onMoveInserted(move): the cycle closed by the move, or NoCycle
onMoveInserted(m, ents, ms) ==
    LET found == DfsVisit(m.id, {}, <<m.id>>, <<NoEntanglement>>, ents, ms)
    IN IF found = NoPath THEN NoCycle
       ELSE EntanglementCycle(found.ids, found.ents, m.id)

---------------------------------------------------------------------------
(* The collapse option generator *)

\* new CollapseOption(cycleId, moveAssignments): assignments = new Map(pairs),
\* a later pair for the same move id replacing an earlier one
RECURSIVE CollapseOption(_)
CollapseOption(moveAssignments) ==
    IF moveAssignments = <<>> THEN EmptyOption
    ELSE LET n == Len(moveAssignments)
             init == CollapseOption(SubSeq(moveAssignments, 1, n - 1))
             last == moveAssignments[n]
         IN [id \in (DOMAIN init) \cup {last[1]} |->
                IF id = last[1] THEN last[2] ELSE init[id]]

\* getSquare(moveId): this.assignments.get(moveId) || null, where a missing
\* key reads as undefined and the number 0 is falsy like undefined
getSquare(option, moveId) ==
    IF moveId \in DOMAIN option /\ option[moveId] # 0
    THEN option[moveId]
    ELSE NULL

\* squares taken by a list of (move id, square) pairs
TakenBy(pairs) == {pairs[k][2] : k \in 1 .. Len(pairs)}

AssignedIn(pairs) == {pairs[k][1] : k \in 1 .. Len(pairs)}

\* backtracking over the cycle's moves in order: each move tries its two
\* squares in order and is rejected on a square already taken
RECURSIVE CycleAssignments(_, _, _, _)
CycleAssignments(ids, k, pairs, ms) ==
    IF k > Len(ids) THEN <<pairs>>
    ELSE LET m == MoveById(ms, ids[k])
             try(sq) == IF sq \in TakenBy(pairs) THEN <<>>
                        ELSE CycleAssignments(ids, k + 1, Append(pairs, <<ids[k], sq>>), ms)
         IN try(m.squares[1]) \o try(m.squares[2])

\* forced resolution of stems, repeated until nothing more is forced; the
\* branch is rejected when a stem finds both its squares taken
RECURSIVE PropagateStems(_, _)
PropagateStems(pairs, unresolved) ==
    LET taken == TakenBy(pairs)
        forced == {i \in 1 .. Len(unresolved) :
                      /\ unresolved[i].id \notin AssignedIn(pairs)
                      /\ SquaresOf(unresolved[i]) \cap taken # {}}
    IN IF forced = {} THEN [ok |-> TRUE, pairs |-> pairs]
       ELSE LET i == CHOOSE x \in forced : \A y \in forced : x <= y
                stem == unresolved[i]
                hit == IF stem.squares[1] \in taken THEN stem.squares[1]
                       ELSE stem.squares[2]
            IN IF SquaresOf(stem) \subseteq taken
               THEN [ok |-> FALSE, pairs |-> pairs]
               ELSE PropagateStems(Append(pairs, <<stem.id, getOtherSquare(stem, hit)>>),
                                   unresolved)

\* every complete assignment, in the order the search finds them
RECURSIVE CompleteAssignments(_, _, _)
CompleteAssignments(cycleAsgs, k, unresolved) ==
    IF k > Len(cycleAsgs) THEN <<>>
    ELSE LET r == PropagateStems(cycleAsgs[k], unresolved)
             rest == CompleteAssignments(cycleAsgs, k + 1, unresolved)
         IN IF r.ok THEN <<CollapseOption(r.pairs)>> \o rest ELSE rest

\* drop the repetitions, keeping the first of each
RECURSIVE Deduplicate(_)
Deduplicate(opts) ==
    IF opts = <<>> THEN <<>>
    ELSE LET n == Len(opts)
             init == Deduplicate(SubSeq(opts, 1, n - 1))
         IN IF opts[n] \in Range(init) THEN init ELSE Append(init, opts[n])

\* number of moves two options place differently
Difference(o1, o2) ==
    Cardinality({id \in (DOMAIN o1) \cup (DOMAIN o2) :
                    id \notin DOMAIN o1 \/ id \notin DOMAIN o2 \/ o1[id] # o2[id]})

\* greedy diverse subset: the first candidate, then each time the candidate
\* farthest (in total difference) from those chosen, the earliest on a tie
RECURSIVE SelectDiverse(_, _, _)
SelectDiverse(opts, chosen, maxOptions) ==
    LET left == {k \in 1 .. Len(opts) : opts[k] \notin Range(chosen)}
        RECURSIVE total(_, _)
        total(k, j) == IF j = 0 THEN 0
                       ELSE Difference(opts[k], chosen[j]) + total(k, j - 1)
        score(k) == total(k, Len(chosen))
    IN IF Len(chosen) >= maxOptions \/ left = {} THEN chosen
       ELSE LET best == CHOOSE k \in left :
                            \A j \in left : score(k) > score(j)
                                            \/ (score(k) = score(j) /\ k <= j)
            IN SelectDiverse(opts, Append(chosen, opts[best]), maxOptions)

\* generate(cycle, allUnresolvedMoves, maxOptions)
generate(cycle, unresolved, maxOptions) ==
    LET cycleAsgs == CycleAssignments(cycle.moveIds, 1, <<>>, unresolved)
        complete == Deduplicate(CompleteAssignments(cycleAsgs, 1, unresolved))
    IN IF Len(complete) <= maxOptions THEN complete
       ELSE SelectDiverse(complete, <<complete[1]>>, maxOptions)

---------------------------------------------------------------------------
(* The collapse applier *)

\* every assignment names an unresolved move of the ledger, one of its own
\* squares, a cell that is not classical, and no square twice
OptionIsConsistent(option, ms, brd) ==
    /\ \A id \in DOMAIN option :
          /\ id \in IdsOf(ms)
          /\ ~MoveById(ms, id).collapsed
          /\ ~collapseThrows(MoveById(ms, id), option[id])
          /\ isValidSquare(option[id])
          /\ ~isClassical(brd, option[id])
    /\ \A id1, id2 \in DOMAIN option : id1 # id2 => option[id1] # option[id2]

\* the classical occupancies an option creates
NewClassicalMoves(option, ms) ==
    {ClassicalMove(MoveById(ms, id).player, option[id], id) : id \in DOMAIN option}

\* apply(option): commit everything, or fail and change nothing
apply(option, ms, brd, ents) ==
    IF ~OptionIsConsistent(option, ms, brd)
    THEN [ok |-> FALSE, moves |-> ms, board |-> brd, entanglements |-> ents]
    ELSE LET placed == NewClassicalMoves(option, ms)
         IN [ok |-> TRUE,
             moves |-> [i \in IndicesOf(ms) |->
                           IF ms[i].id \in DOMAIN option
                           THEN collapse(ms[i], option[ms[i].id])
                           ELSE ms[i]],
             board |-> [c \in Cells |->
                           IF \E cm \in placed : cm.square = c
                           THEN (CHOOSE cm \in placed : cm.square = c).player
                           ELSE brd[c]],
             entanglements |-> {e \in ents :
                                   ~\E id \in DOMAIN option : involves(e, id)}]

---------------------------------------------------------------------------
(* The engine's operations *)

\* no query has been answered yet
NoAnswer == [op |-> "none"]

\* what the last request answered: the operation, success, and for a collapse
\* the option applied and the moves of the cycle it resolved
Result(op, ok, option, cycleIds) ==
    [op |-> op, ok |-> ok, option |-> option, cycleIds |-> cycleIds]

Init ==
    /\ moves = createGameState.quantumMoves
    /\ board = [c \in Cells |-> NoPlayer]
    /\ entanglements = createGameState.entanglements
    /\ pendingCycle = createGameState.pendingCycle
    /\ collapseOptions = createGameState.collapseOptions
    /\ currentPlayer = createGameState.currentPlayer
    /\ moveCount = createGameState.moveCount
    /\ lastResult = Result("init", TRUE, EmptyOption, <<>>)
    /\ answer = NoAnswer
    /\ client = useGameState
    /\ calls = {}
    /\ sent = 0

\* the engine's part of newGame(): ledger, graph and history emptied, player
\* X to move
ResetEngine ==
    /\ moves' = createGameState.quantumMoves
    /\ board' = [c \in Cells |-> NoPlayer]
    /\ entanglements' = createGameState.entanglements
    /\ pendingCycle' = createGameState.pendingCycle
    /\ collapseOptions' = createGameState.collapseOptions
    /\ currentPlayer' = createGameState.currentPlayer
    /\ moveCount' = createGameState.moveCount
    /\ lastResult' = Result("new", TRUE, EmptyOption, <<>>)

\* newGame()
NewGame ==
    /\ ResetEngine
    /\ UNCHANGED queryVars

\* makeQuantumMove(square1, square2) by the player to move: validation, then
\* ledger, graph, cycle detection and, on a cycle, the options; an invalid
\* request and a request while a cycle is pending change nothing
insertMove(square1, square2) ==
    LET squares == <<square1, square2>>
    IN /\ UNCHANGED queryVars
       /\ IF pendingCycle = NoCycle /\ MoveIsValid(moves, board, squares)
          THEN LET m == QuantumMove(currentPlayer,
                                    NextMoveNumber(moves, currentPlayer), squares)
                   ms == Append(moves, m)
                   ents == entanglements \cup NewEntanglements(moves, m)
                   cycle == onMoveInserted(m, ents, ms)
               IN /\ moves' = ms
                  /\ entanglements' = ents
                  /\ pendingCycle' = cycle
                  /\ collapseOptions' =
                        IF cycle = NoCycle THEN <<>>
                        ELSE generate(cycle, UnresolvedMoves(ms), MAX_COLLAPSE_OPTIONS)
                  /\ currentPlayer' = Other(currentPlayer)
                  /\ moveCount' = moveCount + 1
                  /\ lastResult' = Result("move", TRUE, EmptyOption, <<>>)
                  /\ UNCHANGED board
          ELSE /\ lastResult' = Result("move", FALSE, EmptyOption, <<>>)
               /\ UNCHANGED <<moves, board, entanglements, pendingCycle,
                              collapseOptions, currentPlayer, moveCount>>

\* makeQuantumMove in a game of at most MaxMoves moves
MakeQuantumMove(square1, square2) ==
    /\ Len(moves) < MaxMoves
    /\ insertMove(square1, square2)

\* options a caller may hand to chooseCollapse: the generated ones, the empty
\* one, and a generated one with one move sent to another cell
CollapseInputs ==
    Range(collapseOptions) \cup {EmptyOption}
    \cup {[o EXCEPT ![id] = sq] :
            <<o, id, sq>> \in {t \in Range(collapseOptions) \X IdsOf(moves) \X PlayCells :
                                  t[2] \in DOMAIN t[1]}}

\* chooseCollapse applying whatever option it is handed, as long as the
\* applier accepts it
ChooseCollapse_Unchecked(option) ==
    LET r == apply(option, moves, board, entanglements)
    IN IF r.ok
       THEN /\ moves' = r.moves
            /\ board' = r.board
            /\ entanglements' = r.entanglements
            /\ pendingCycle' = NoCycle
            /\ collapseOptions' = <<>>
            /\ lastResult' = Result("collapse", TRUE, option, pendingCycle.moveIds)
            /\ UNCHANGED <<currentPlayer, moveCount, answer, client>>
       ELSE /\ lastResult' = Result("collapse", FALSE, EmptyOption, <<>>)
            /\ UNCHANGED <<moves, board, entanglements, pendingCycle,
                           collapseOptions, currentPlayer, moveCount, answer, client>>

\* chooseCollapse(option): refused without a pending cycle and for an option
\* that was not generated for it; otherwise the option is applied
ChooseCollapse(option) ==
    LET r == apply(option, moves, board, entanglements)
    IN IF pendingCycle # NoCycle /\ option \in Range(collapseOptions) /\ r.ok
       THEN /\ moves' = r.moves
            /\ board' = r.board
            /\ entanglements' = r.entanglements
            /\ pendingCycle' = NoCycle
            /\ collapseOptions' = <<>>
            /\ lastResult' = Result("collapse", TRUE, option, pendingCycle.moveIds)
            /\ UNCHANGED <<currentPlayer, moveCount, answer, client>>
       ELSE /\ lastResult' = Result("collapse", FALSE, EmptyOption, <<>>)
            /\ UNCHANGED <<moves, board, entanglements, pendingCycle,
                           collapseOptions, currentPlayer, moveCount, answer, client>>

\* cycleCreator and collapseChooser of the answer to a move that closed a
\* cycle
cycleCreator == pendingCycle.triggerPlayer

collapseChooser == getCollapsePlayer(pendingCycle)

Next ==
    \/ NewGame /\ UNCHANGED wire
    \/ /\ \E squares \in MoveInputs : MakeQuantumMove(squares[1], squares[2])
       /\ UNCHANGED wire
    \/ /\ \E option \in CollapseInputs : ChooseCollapse(option)
       /\ UNCHANGED wire

Spec == Init /\ [][Next]_vars

---------------------------------------------------------------------------
(* The applier called on its own: a game is played to some state, then one  *)
(* option, generated or not, is handed to apply and the outcome observed    *)

\* a move id that no move of the ledger carries
GhostId == <<"X", 0>>

\* the options handed to apply: those on offer, the first of them with one
\* square changed (to the move's other square, to a square of the last move
\* or to one off the board), those with an unknown move added, the option of
\* the collapse just made, every single assignment of a move to one of its
\* squares or to cell 0, and the assignment of an unknown move alone
ApplyInputs ==
    Range(collapseOptions)
    \cup {[o EXCEPT ![id] = sq] :
            <<o, id, sq>> \in {t \in {collapseOptions[k] : k \in DOMAIN collapseOptions \cap {1}}
                                     \X IdsOf(moves) \X (PlayCells \cup {BOARD_SIZE}) :
                                  /\ t[2] \in DOMAIN t[1]
                                  /\ t[3] \in SquaresOf(MoveById(moves, t[2]))
                                              \cup SquaresOf(moves[Len(moves)])
                                              \cup {BOARD_SIZE}}}
    \cup {(GhostId :> 0) @@ o : o \in Range(collapseOptions)}
    \cup {lastResult.option}
    \cup {(id :> sq) :
            <<id, sq>> \in {t \in IdsOf(moves) \X PlayCells :
                              t[2] \in SquaresOf(MoveById(moves, t[1])) \cup {0}}}
    \cup {(GhostId :> 0)}

\* apply is called while a collapse is pending or right after one
ApplyOption(option) ==
    LET r == apply(option, moves, board, entanglements)
    IN /\ pendingCycle # NoCycle \/ (lastResult.op = "collapse" /\ lastResult.ok)
       /\ moves' = r.moves
       /\ board' = r.board
       /\ entanglements' = r.entanglements
       /\ lastResult' = Result("apply", r.ok, option, <<>>)
       /\ UNCHANGED <<pendingCycle, collapseOptions, currentPlayer, moveCount, answer, client>>

\* the game is played up to MaxApplyMoves moves and ends with the call of
\* apply
NextApply ==
    /\ lastResult.op # "apply"
    /\ \/ Next
       \/ /\ \E option \in ApplyInputs : ApplyOption(option)
          /\ UNCHANGED wire
    /\ Len(moves') <= MaxApplyMoves

SpecApply == Init /\ [][NextApply]_vars

---------------------------------------------------------------------------
(* The QuantumMove type used on its own: one move object and the calls of   *)
(* its collapse method                                                      *)

InitMove ==
    /\ \E player \in PLAYERS, moveNum \in 1 .. MaxMoves, squares \in Cells \X Cells :
          /\ ~QuantumMoveThrows(squares)
          /\ moves = <<QuantumMove(player, moveNum, squares)>>
    /\ board = [c \in Cells |-> NoPlayer]
    /\ entanglements = createGameState.entanglements
    /\ pendingCycle = createGameState.pendingCycle
    /\ collapseOptions = createGameState.collapseOptions
    /\ currentPlayer = createGameState.currentPlayer
    /\ moveCount = createGameState.moveCount
    /\ lastResult = Result("construct", TRUE, EmptyOption, <<>>)
    /\ answer = NoAnswer
    /\ client = useGameState
    /\ calls = {}
    /\ sent = 0

\* move.collapse(sq): throws for a square the move does not have, otherwise
\* sets collapsed and finalSquare
CollapseCall(sq) ==
    /\ IF collapseThrows(moves[1], sq)
       THEN /\ lastResult' = Result("collapseCall", FALSE, EmptyOption, <<>>)
            /\ UNCHANGED moves
       ELSE /\ moves' = <<collapse(moves[1], sq)>>
            /\ lastResult' = Result("collapseCall", TRUE, EmptyOption, <<>>)
    /\ UNCHANGED <<board, entanglements, pendingCycle, collapseOptions,
                   currentPlayer, moveCount, answer, client>>

NextMove == (\E sq \in Cells : CollapseCall(sq)) /\ UNCHANGED wire

SpecMove == InitMove /\ [][NextMove]_vars

---------------------------------------------------------------------------
(* Notions the properties are stated with, defined from the ledger alone *)

Unresolved == {i \in IndicesOf(moves) : ~moves[i].collapsed}

Resolved == {i \in IndicesOf(moves) : moves[i].collapsed}

\* ids of the unresolved moves that list a cell
UnresolvedAt(c) == {moves[i].id : i \in {j \in Unresolved : c \in SquaresOf(moves[j])}}

\* the board as the client draws it
Shown == buildBoardFromAPI(board, moves)

CollapseDone == lastResult.op = "collapse" /\ lastResult.ok

MoveDone == lastResult.op = "move" /\ lastResult.ok

---------------------------------------------------------------------------
\* C1: in every reachable state each of the 9 cells holds either a set of
\* unresolved move ids or exactly one classical occupant, never both: no
\* unresolved move lists a classical cell, a classical cell is the final
\* square of exactly one resolved move of that player, and the client's
\* projection shows a classical cell with an empty quantumMoveIds list and
\* any other cell with exactly the unresolved moves that list it.
C1_CellQuantumOrClassical ==
    /\ \A i \in Unresolved : \A sq \in SquaresOf(moves[i]) :
          sq \in Cells /\ board[sq] = NoPlayer
    /\ \A c \in Cells :
          /\ board[c] \in PLAYERS \cup {NoPlayer}
          /\ board[c] \in PLAYERS =>
                /\ Cardinality({i \in Resolved : moves[i].finalSquare = c}) = 1
                /\ \A i \in Resolved :
                      moves[i].finalSquare = c => moves[i].player = board[c]
                /\ Shown[c].state = "classical"
                /\ Shown[c].classicalMoveId = board[c]
                /\ Shown[c].quantumMoveIds = <<>>
          /\ board[c] = NoPlayer =>
                /\ Shown[c].state # "classical"
                /\ Shown[c].classicalMoveId = NoPlayer
                /\ Range(Shown[c].quantumMoveIds) = UnresolvedAt(c)
                /\ Len(Shown[c].quantumMoveIds) = Cardinality(UnresolvedAt(c))

\* a collapse that resolved a stem along with the moves of the cycle
C1_Witness ==
    /\ CollapseDone
    /\ (DOMAIN lastResult.option) \ Range(lastResult.cycleIds) # {}
    /\ \E c \in Cells : Shown[c].state = "classical"

\* C2: every unresolved move has exactly 2 distinct squares, each a cell
\* index in 0..8, and every resolved move's finalSquare is one of its two
\* original squares.
C2_MoveSquares ==
    \A i \in IndicesOf(moves) :
        /\ ~moves[i].collapsed =>
              /\ Len(moves[i].squares) = 2
              /\ moves[i].squares[1] # moves[i].squares[2]
              /\ \A k \in 1 .. 2 : moves[i].squares[k] \in 0 .. 8
        /\ moves[i].collapsed => moves[i].finalSquare \in SquaresOf(moves[i])

\* a ledger with resolved and unresolved moves, after a rejected request
C2_Witness ==
    /\ Resolved # {}
    /\ Unresolved # {}
    /\ lastResult.op = "move" /\ ~lastResult.ok

\* C3: a move is resolved at most once: no step other than newGame removes
\* a move from the ledger, and a move that is resolved keeps its resolved
\* flag and its finalSquare in every later step.
C3_ResolvedOnce ==
    [][lastResult'.op # "new" =>
          \A i \in IndicesOf(moves) :
              /\ i \in IndicesOf(moves')
              /\ moves'[i].id = moves[i].id
              /\ moves[i].collapsed =>
                    /\ moves'[i].collapsed
                    /\ moves'[i].finalSquare = moves[i].finalSquare]_vars

\* the entanglements the ledger implies: one per pair of different
\* unresolved moves and cell that both list
DerivedEntanglements ==
    {[move1Id |-> moves[t[1]].id, move2Id |-> moves[t[2]].id, sharedSquare |-> t[3]] :
        t \in {u \in Unresolved \X Unresolved \X Cells :
                  /\ IdLess(moves[u[1]].id, moves[u[2]].id)
                  /\ u[3] \in SquaresOf(moves[u[1]]) \cap SquaresOf(moves[u[2]])}}

\* C4: the entanglement list is exactly the set derived from the moves: an
\* entanglement (m1, m2, cell) exists iff m1 and m2 are two different
\* unresolved moves whose pairs both contain the cell; none involves a
\* resolved move and none joins a move to itself.
C4_EntanglementsDerived ==
    /\ entanglements = DerivedEntanglements
    /\ \A e \in entanglements :
          /\ e.move1Id # e.move2Id
          /\ \A i \in Resolved : moves[i].id \notin {e.move1Id, e.move2Id}

\* after a collapse the ledger holds resolved moves next to unresolved moves
\* that are entangled with each other
C4_Witness ==
    /\ Resolved # {}
    /\ entanglements # {}

\* two unresolved moves of the ledger share a cell
Entangled(i, j) ==
    /\ i # j
    /\ i \in Unresolved /\ j \in Unresolved
    /\ SquaresOf(moves[i]) \cap SquaresOf(moves[j]) # {}

\* the moves that chains of entanglements reach from the moves S without
\* passing through move `without`
RECURSIVE ReachableFrom(_, _)
ReachableFrom(S, without) ==
    LET more == {j \in Unresolved \ (S \cup {without}) : \E i \in S : Entangled(i, j)}
    IN IF more = {} THEN S ELSE ReachableFrom(S \cup more, without)

\* move i lies on a loop of the entanglement graph: two of its entanglements
\* lead to moves that are joined without it (or to the same move)
ClosesLoop(i) ==
    \/ \E a, b \in Unresolved :
          /\ a # b /\ Entangled(i, a) /\ Entangled(i, b)
          /\ b \in ReachableFrom({a}, i)
    \/ \E a \in Unresolved :
          i # a /\ Cardinality(SquaresOf(moves[i]) \cap SquaresOf(moves[a])) > 1

LastMove == moves[Len(moves)]

\* the squares of the moves of the ledger, in order
SquaresPlayed == [i \in IndicesOf(moves) |-> moves[i].squares]

\* C5: after the insertion of a move m a cycle is reported iff m closes a
\* loop in the entanglement graph of the unresolved moves; the reported cycle
\* is a closed chain of entangled moves that contains m, names m as trigger
\* and m's player as triggering player.  For X1=[0,4], O1=[4,8], X2=[8,0]: no
\* cycle after X1 or O1, and after X2 a cycle of exactly {X1,O1,X2},
\* triggered by X2, player X.
C5_CycleDetection ==
    MoveDone =>
       /\ (pendingCycle # NoCycle) <=> ClosesLoop(Len(moves))
       /\ pendingCycle # NoCycle =>
             LET ids == pendingCycle.moveIds
                 n == Len(ids)
             IN /\ LastMove.id \in Range(ids)
                /\ pendingCycle.triggerMoveId = LastMove.id
                /\ pendingCycle.triggerPlayer = LastMove.player
                /\ n >= 2 /\ Cardinality(Range(ids)) = n
                /\ Range(ids) \subseteq {moves[i].id : i \in Unresolved}
                /\ \A k \in 1 .. n :
                      Entangled(IndexOfId(moves, ids[k]),
                                IndexOfId(moves, ids[(k % n) + 1]))
       /\ SquaresPlayed \in {<< <<0, 4>> >>, << <<0, 4>>, <<4, 8>> >>} =>
             pendingCycle = NoCycle
       /\ SquaresPlayed = << <<0, 4>>, <<4, 8>>, <<0, 8>> >> =>
             /\ Range(pendingCycle.moveIds) = {<<"X", 1>>, <<"O", 1>>, <<"X", 2>>}
             /\ pendingCycle.triggerMoveId = <<"X", 2>>
             /\ pendingCycle.triggerPlayer = "X"

\* X2=[8,0] has just closed the loop X1=[0,4], O1=[4,8]
C5_Witness ==
    /\ MoveDone
    /\ SquaresPlayed = << <<0, 4>>, <<4, 8>>, <<0, 8>> >>
    /\ pendingCycle # NoCycle

CyclePending == pendingCycle # NoCycle

CycleIds == Range(pendingCycle.moveIds)

\* squares an option gives to moves other than id
TakenByOthers(option, id) == {option[x] : x \in (DOMAIN option) \ {id}}

\* the stems an option forces: unresolved moves outside the cycle with a
\* square that the option gives to another move
ForcedStems(option) ==
    {i \in Unresolved :
        /\ moves[i].id \notin CycleIds
        /\ SquaresOf(moves[i]) \cap TakenByOthers(option, moves[i].id) # {}}

\* C6: every collapse option returned for a detected cycle is a total mapping
\* over all cycle moves and all forced stem moves, maps each move to one of
\* that move's own two squares, and maps no two moves to the same square.
C6_OptionsWellFormed ==
    CyclePending =>
       \A k \in 1 .. Len(collapseOptions) :
          LET option == collapseOptions[k]
          IN /\ CycleIds \subseteq DOMAIN option
             /\ \A i \in ForcedStems(option) : moves[i].id \in DOMAIN option
             /\ \A id \in DOMAIN option :
                   /\ id \in {moves[i].id : i \in Unresolved}
                   /\ option[id] \in SquaresOf(MoveById(moves, id))
             /\ \A id1, id2 \in DOMAIN option :
                   id1 # id2 => option[id1] # option[id2]

\* options are on offer, one of them covering a stem beside the cycle
C6_Witness ==
    /\ CyclePending
    /\ \E k \in 1 .. Len(collapseOptions) :
          (DOMAIN collapseOptions[k]) \ CycleIds # {}

\* the pending cycle is a simple cycle with no stems: its k moves cover k
\* cells, each cell listed by exactly two of them, and no other unresolved
\* move lists one of these cells
SimpleCycleNoStems ==
    LET members == {i \in Unresolved : moves[i].id \in CycleIds}
        cells == UNION {SquaresOf(moves[i]) : i \in members}
    IN /\ Cardinality(cells) = Cardinality(members)
       /\ \A c \in cells :
             Cardinality({i \in members : c \in SquaresOf(moves[i])}) = 2
       /\ \A i \in Unresolved \ members : SquaresOf(moves[i]) \cap cells = {}

ExampleOptionA == (<<"X", 1>> :> 4) @@ (<<"O", 1>> :> 8) @@ (<<"X", 2>> :> 0)

ExampleOptionB == (<<"X", 1>> :> 0) @@ (<<"O", 1>> :> 4) @@ (<<"X", 2>> :> 8)

\* C7: for a detected cycle that is a simple cycle with no stems the
\* generator returns exactly 2 distinct options; for X1=[0,4], O1=[4,8],
\* X2=[8,0] they are {X1->4,O1->8,X2->0} and {X1->0,O1->4,X2->8}.
C7_SimpleCycleTwoOptions ==
    /\ CyclePending /\ SimpleCycleNoStems =>
          /\ Len(collapseOptions) = 2
          /\ collapseOptions[1] # collapseOptions[2]
    /\ CyclePending /\ SquaresPlayed = << <<0, 4>>, <<4, 8>>, <<0, 8>> >> =>
          Range(collapseOptions) = {ExampleOptionA, ExampleOptionB}

\* the 3-cycle of the example is pending and is a simple cycle with no stems
C7_Witness ==
    /\ CyclePending /\ SimpleCycleNoStems
    /\ SquaresPlayed = << <<0, 4>>, <<4, 8>>, <<0, 8>> >>

\* C8: in every collapse option each stem (an unresolved move outside the
\* cycle) with a square taken by another move of the option is mapped to its
\* other square, also when the taking move is itself a stem, and no option
\* leaves a stem with both squares taken.
C8_StemsForced ==
    CyclePending =>
       \A k \in 1 .. Len(collapseOptions) :
          LET option == collapseOptions[k]
          IN \A i \in Unresolved :
                LET stem == moves[i]
                    taken == TakenByOthers(option, stem.id)
                IN (stem.id \notin CycleIds /\ SquaresOf(stem) \cap taken # {}) =>
                      /\ ~(SquaresOf(stem) \subseteq taken)
                      /\ stem.id \in DOMAIN option
                      /\ option[stem.id] \in SquaresOf(stem) \ taken

\* an option with a chain of stems: a stem forced by a square that only
\* another stem takes
C8_Witness ==
    /\ CyclePending
    /\ \E k \in 1 .. Len(collapseOptions) :
          LET option == collapseOptions[k]
              byCycle == {option[id] : id \in CycleIds}
          IN \E i, j \in Unresolved :
                /\ moves[i].id \notin CycleIds /\ moves[j].id \notin CycleIds
                /\ i # j
                /\ SquaresOf(moves[j]) \cap byCycle = {}
                /\ option[moves[i].id] \in SquaresOf(moves[j])
                /\ moves[j].id \in DOMAIN option

\* C9: after chooseCollapse(option) succeeds, every (moveId, square) of the
\* option has its move resolved with finalSquare = square, the cell square
\* holds the move's player, and no entanglement involves the move; applying
\* {X1->0, O1->4, X2->8} gives board[0]=X, board[4]=O, board[8]=X.
C9_CollapseApplied ==
    CollapseDone =>
       /\ \A id \in DOMAIN lastResult.option :
             LET m == MoveById(moves, id)
             IN /\ m.collapsed
                /\ m.finalSquare = lastResult.option[id]
                /\ board[lastResult.option[id]] = m.player
                /\ \A e \in entanglements : id \notin {e.move1Id, e.move2Id}
       /\ (lastResult.option = ExampleOptionB
           /\ SquaresPlayed = << <<0, 4>>, <<4, 8>>, <<0, 8>> >>) =>
             board[0] = "X" /\ board[4] = "O" /\ board[8] = "X"

\* {X1->0, O1->4, X2->8} has just been applied to the example cycle
C9_Witness ==
    /\ CollapseDone
    /\ lastResult.option = ExampleOptionB
    /\ SquaresPlayed = << <<0, 4>>, <<4, 8>>, <<0, 8>> >>

\* an assignment of an option that does not fit the ledger and the board:
\* unknown move, resolved move, square not of the move, classical square, or
\* a square the option assigns twice
BadAssignment(option, id) ==
    \/ id \notin {moves[i].id : i \in IndicesOf(moves)}
    \/ \E i \in Resolved : moves[i].id = id
    \/ \E i \in IndicesOf(moves) :
          moves[i].id = id /\ option[id] \notin SquaresOf(moves[i])
    \/ option[id] \notin Cells
    \/ option[id] \in Cells /\ board[option[id]] # NoPlayer
    \/ \E id2 \in (DOMAIN option) \ {id} : option[id2] = option[id]

\* C10: collapse application is all-or-nothing: an option with an assignment
\* that does not fit fails and leaves moves, board and entanglements exactly
\* as before; an option that fits is committed whole.
C10_ApplyAllOrNothing ==
    [][lastResult'.op = "apply" =>
          LET option == lastResult'.option
          IN IF \E id \in DOMAIN option : BadAssignment(option, id)
             THEN /\ ~lastResult'.ok
                  /\ moves' = moves
                  /\ board' = board
                  /\ entanglements' = entanglements
             ELSE /\ lastResult'.ok
                  /\ \A id \in DOMAIN option :
                        /\ MoveById(moves', id).collapsed
                        /\ MoveById(moves', id).finalSquare = option[id]]_vars

\* apply has refused an option of which one assignment fitted and another
\* did not
C10_Witness ==
    /\ lastResult.op = "apply" /\ ~lastResult.ok
    /\ \E id \in DOMAIN lastResult.option : BadAssignment(lastResult.option, id)
    /\ \E id \in DOMAIN lastResult.option : ~BadAssignment(lastResult.option, id)

---------------------------------------------------------------------------
(* Rejected requests *)

gameVars == <<moves, board, entanglements, pendingCycle, collapseOptions,
              currentPlayer, moveCount>>

\* a request the validation has to refuse: a square off the board, twice
\* the same square, or a square that is already classical
InvalidRequest(squares) ==
    \/ squares[1] \notin 0 .. 8
    \/ squares[2] \notin 0 .. 8
    \/ squares[1] = squares[2]
    \/ \E k \in 1 .. 2 : squares[k] \in 0 .. 8 /\ board[squares[k]] # NoPlayer

\* C11: makeQuantumMove with squares that are not both in 0..8, are
\* identical, or of which one is already classical fails, returns an error
\* result and leaves moves, board, entanglements, current player and move
\* count (and the pending cycle with its options) unchanged.
C11_InvalidMoveRejected ==
    [][\A squares \in MoveInputs :
          (InvalidRequest(squares) /\ MakeQuantumMove(squares[1], squares[2])) =>
             /\ lastResult'.op = "move" /\ ~lastResult'.ok
             /\ UNCHANGED gameVars]_vars

\* a request has been refused while cells of the board are classical and
\* an unresolved move is still on it
C11_Witness ==
    /\ lastResult.op = "move" /\ ~lastResult.ok
    /\ \E c \in Cells : board[c] # NoPlayer
    /\ Unresolved # {}
    /\ pendingCycle = NoCycle

\* C12: chooseCollapse fails and leaves the game state unchanged when no
\* cycle is pending, and when a cycle is pending but the option is not one
\* of the options generated for it.
C12_BadCollapseRejected ==
    [][\A option \in CollapseInputs :
          (/\ pendingCycle = NoCycle \/ option \notin Range(collapseOptions)
           /\ ChooseCollapse(option)) =>
             /\ lastResult'.op = "collapse" /\ ~lastResult'.ok
             /\ UNCHANGED gameVars]_vars

\* a choice has been refused while a cycle is pending with its options
C12_Witness ==
    /\ lastResult.op = "collapse" /\ ~lastResult.ok
    /\ pendingCycle # NoCycle
    /\ Len(collapseOptions) >= 2

---------------------------------------------------------------------------
\* C13: whenever a move has closed a cycle, the player who chooses the
\* collapse is the opponent of the player who made the cycle-closing move:
\* collapseChooser is O when cycleCreator is X and X when cycleCreator is O,
\* and cycleCreator is the player of the triggering move, the last move made.
C13_ChooserIsOpponent ==
    pendingCycle # NoCycle =>
        /\ pendingCycle.triggerMoveId = moves[Len(moves)].id
        /\ cycleCreator = moves[Len(moves)].player
        /\ cycleCreator \in PLAYERS /\ collapseChooser \in PLAYERS
        /\ cycleCreator = "X" => collapseChooser = "O"
        /\ cycleCreator = "O" => collapseChooser = "X"

\* player O has just closed a cycle
C13_Witness ==
    /\ MoveDone
    /\ pendingCycle # NoCycle
    /\ moves[Len(moves)].player = "O"

---------------------------------------------------------------------------
(* The win evaluator: evaluate(board, moveHistory) *)

\* the lines without the two diagonals
WINNING_LINES_NoDiagonals ==
    << <<0, 1, 2>>, <<3, 4, 5>>, <<6, 7, 8>>,
       <<0, 3, 6>>, <<1, 4, 7>>, <<2, 5, 8>> >>

\* rows, columns, diagonals
WINNING_LINES ==
    << <<0, 1, 2>>, <<3, 4, 5>>, <<6, 7, 8>>,
       <<0, 3, 6>>, <<1, 4, 7>>, <<2, 5, 8>>,
       <<0, 4, 8>>, <<2, 4, 6>> >>

\* scores, counted in half points
ONE_POINT == 2

HALF_POINT == 1

NoLine == <<>>

\* a line qualifies for a player if all three cells are classical occupants
\* of that player
Qualifies(brd, line, player) ==
    \A k \in 1 .. Len(line) : brd[line[k]] = player

QualifyingLines(brd, player) ==
    {i \in 1 .. Len(WINNING_LINES) : Qualifies(brd, WINNING_LINES[i], player)}

\* the sequence number of the move that occupies a classical cell
OccupantNumber(ms, c) ==
    LET i == CHOOSE j \in IndicesOf(ms) : ms[j].collapsed /\ ms[j].finalSquare = c
    IN ms[i].moveNumber

\* the lowest sequence number in a line, in place of the highest
CompletedAt_Lowest(ms, line) ==
    LET nums == {OccupantNumber(ms, line[k]) : k \in 1 .. 3}
    IN CHOOSE n \in nums : \A m \in nums : n <= m

\* the sequence number of the move that completed a line: the highest among
\* its three occupants
CompletedAt(ms, line) ==
    LET nums == {OccupantNumber(ms, line[k]) : k \in 1 .. Len(line)}
    IN CHOOSE n \in nums : \A o \in nums : o <= n

\* a player's best qualifying line: the one completed earliest, the first of
\* WINNING_LINES among equals
BestLine(brd, ms, player) ==
    LET q == QualifyingLines(brd, player)
    IN IF q = {} THEN NoLine
       ELSE WINNING_LINES[CHOOSE i \in q : \A j \in q :
                \/ CompletedAt(ms, WINNING_LINES[i]) < CompletedAt(ms, WINNING_LINES[j])
                \/ /\ CompletedAt(ms, WINNING_LINES[i]) = CompletedAt(ms, WINNING_LINES[j])
                   /\ i <= j]

\* cells still eligible for a two-cell quantum move
FreeCells(brd) == {c \in Cells : brd[c] = NoPlayer}

\* evaluate(board, moveHistory): one winner, a simultaneous win with the
\* tie-break on the completing moves, a draw, or a game still open. With
\* equal completing numbers the move of X, who starts, is the earlier one.
evaluate(brd, ms) ==
    LET xLine == BestLine(brd, ms, "X")
        oLine == BestLine(brd, ms, "O")
        both == xLine # NoLine /\ oLine # NoLine
        xFirst == IF ~both THEN xLine # NoLine
                  ELSE \/ CompletedAt(ms, xLine) < CompletedAt(ms, oLine)
                       \/ /\ CompletedAt(ms, xLine) = CompletedAt(ms, oLine)
                          /\ createGameState.currentPlayer = "X"
        won == IF xLine = NoLine /\ oLine = NoLine THEN NoPlayer
               ELSE IF xFirst THEN "X" ELSE "O"
    IN [op |-> "getWinner",
        winner |-> won,
        winningLine |-> IF won = "X" THEN xLine ELSE oLine,
        isDraw |-> /\ won = NoPlayer
                   /\ Cardinality(FreeCells(brd)) < MIN_SQUARES_FOR_MOVE,
        isSimultaneous |-> both,
        xScore |-> IF xLine = NoLine THEN 0
                   ELSE IF won = "X" THEN ONE_POINT ELSE HALF_POINT,
        oScore |-> IF oLine = NoLine THEN 0
                   ELSE IF won = "O" THEN ONE_POINT ELSE HALF_POINT,
        xWinningLine |-> xLine,
        oWinningLine |-> oLine]

---------------------------------------------------------------------------
(* The evaluator on its own: a classical board and a move history that      *)
(* produced it are drawn, then getWinner is asked                           *)

\* orders in which the classical cells of a board were occupied
CellOrders ==
    << <<0, 1, 2, 3, 4, 5, 6, 7, 8>>,
       <<0, 1, 6, 7, 8, 3, 4, 5, 2>>,
       <<8, 7, 6, 5, 4, 3, 2, 1, 0>> >>

\* a history: the order of occupation, and the player of one more move that
\* is still unresolved on two free cells (NoPlayer: no such move)
EvalVariants ==
    << [order |-> 1, quantum |-> NoPlayer],
       [order |-> 2, quantum |-> NoPlayer],
       [order |-> 1, quantum |-> "X"],
       [order |-> 1, quantum |-> "O"],
       [order |-> 3, quantum |-> NoPlayer] >>

Count(brd, player) == Cardinality({c \in Cells : brd[c] = player})

\* a board that alternating play can produce: a collapse resolves at least
\* three moves, X has made as many moves as O or one more, every classical
\* cell is one resolved move, and u unresolved moves need u + 1 free cells
Playable(brd) ==
    LET cx == Count(brd, "X")
        co == Count(brd, "O")
        free == BOARD_SIZE - cx - co
    IN /\ cx + co \notin {1, 2}
       /\ \E u \in 0 .. (IF free >= 2 THEN free - 1 ELSE 0) :
             LET total == cx + co + u
             IN /\ (total + 1) \div 2 >= cx
                /\ total \div 2 >= co

\* the ledger of a board: the classical cells taken in the given order, the
\* k-th cell of a player by that player's move k, then the unresolved move
EvalLedger(brd, variant) ==
    LET order == CellOrders[variant.order]
        placed == SelectSeq(order, LAMBDA c : brd[c] # NoPlayer)
        num(k) == Cardinality({j \in 1 .. k : brd[placed[j]] = brd[placed[k]]})
        resolved == [k \in 1 .. Len(placed) |->
                        collapse(QuantumMove(brd[placed[k]], num(k),
                                             <<placed[k], (placed[k] + 1) % BOARD_SIZE>>),
                                 placed[k])]
        free == SortedSeq(FreeCells(brd))
    IN IF variant.quantum # NoPlayer /\ Len(free) >= 2
       THEN Append(resolved, QuantumMove(variant.quantum,
                                         Count(brd, variant.quantum) + 1,
                                         <<free[1], free[2]>>))
       ELSE resolved

InitEval ==
    \E brd \in [Cells -> PLAYERS \cup {NoPlayer}],
       v \in 1 .. (IF NumEvalVariants < Len(EvalVariants)
                   THEN NumEvalVariants ELSE Len(EvalVariants)) :
        /\ Playable(brd)
        /\ board = brd
        /\ moves = EvalLedger(brd, EvalVariants[v])
        /\ entanglements = createGameState.entanglements
        /\ pendingCycle = createGameState.pendingCycle
        /\ collapseOptions = createGameState.collapseOptions
        /\ currentPlayer = createGameState.currentPlayer
        /\ moveCount = Len(moves)
        /\ lastResult = Result("init", TRUE, EmptyOption, <<>>)
        /\ answer = NoAnswer
        /\ client = useGameState
        /\ calls = {}
        /\ sent = 0

\* getWinner() that also closes the turn of a finished game
GetWinner_ClosesTurn ==
    /\ answer' = evaluate(board, moves)
    /\ lastResult' = Result("getWinner", TRUE, EmptyOption, <<>>)
    /\ currentPlayer' = IF answer'.winner \in PLAYERS \/ pendingCycle # NoCycle
                        THEN Other(currentPlayer) ELSE currentPlayer
    /\ UNCHANGED <<moves, board, entanglements, pendingCycle, collapseOptions,
                   moveCount>>

\* getWinner(): the evaluator's verdict on the board and the move history
GetWinner ==
    /\ answer' = evaluate(board, moves)
    /\ lastResult' = Result("getWinner", TRUE, EmptyOption, <<>>)
    /\ UNCHANGED gameVars

NextEval == GetWinner /\ UNCHANGED <<client, calls, sent>>

SpecEval == InitEval /\ [][NextEval]_vars

---------------------------------------------------------------------------
\* the 8 fixed lines: 3 rows, 3 columns, 2 diagonals
FixedLines ==
    {<<3 * r, 3 * r + 1, 3 * r + 2>> : r \in 0 .. 2}
    \cup {<<c, c + 3, c + 6>> : c \in 0 .. 2}
    \cup {<<0, 4, 8>>, <<2, 4, 6>>}

\* the lines of which all three cells are classical cells of the player
LinesOf(player) ==
    {line \in FixedLines : \A k \in 1 .. 3 : board[line[k]] = player}

Answered == answer.op = "getWinner"

\* C14: a player is reported as winner only if one of the 8 fixed lines has
\* all three cells classically occupied by that player (cells with only
\* unresolved marks do not count); when exactly one player has such a line,
\* that player is the winner and winningLine is one of that player's lines.
C14_WinnerHasClassicalLine ==
    Answered =>
        /\ answer.winner \in PLAYERS \cup {NoPlayer}
        /\ answer.winner \in PLAYERS => LinesOf(answer.winner) # {}
        /\ \A p \in PLAYERS :
              (LinesOf(p) # {} /\ LinesOf(Other(p)) = {}) =>
                  /\ answer.winner = p
                  /\ answer.winningLine \in LinesOf(p)

\* the verdict names O as the only player with a line, a diagonal, while an
\* unresolved move of X sits on two free cells
C14_Witness ==
    /\ Answered
    /\ answer.winner = "O" /\ LinesOf("X") = {}
    /\ answer.winningLine = <<2, 4, 6>>
    /\ \E i \in Unresolved : moves[i].player = "X"

\* the sequence number of the resolved move that occupies a classical cell
NumberAt(c) ==
    LET i == CHOOSE i \in DOMAIN moves :
                 moves[i].collapsed /\ moves[i].finalSquare = c
    IN moves[i].moveNumber

LineNumbers(line) == {NumberAt(line[k]) : k \in 1 .. 3}

\* the number of the move that completed a line, and the earliest in it
LineHigh(line) == CHOOSE n \in LineNumbers(line) : \A m \in LineNumbers(line) : m <= n
LineLow(line) == CHOOSE n \in LineNumbers(line) : \A m \in LineNumbers(line) : n <= m

\* the completing number of the line a player completed first
BestHigh(player) ==
    LET highs == {LineHigh(line) : line \in LinesOf(player)}
    IN CHOOSE n \in highs : \A m \in highs : n <= m

BothHaveLine == LinesOf("X") # {} /\ LinesOf("O") # {}

C16_EarliestMoveWins ==
    (Answered /\ BothHaveLine) =>
        LET lowX == LineLow(answer.xWinningLine)
            lowO == LineLow(answer.oWinningLine)
        IN /\ lowX < lowO =>
                 answer.xScore = ONE_POINT /\ answer.oScore = HALF_POINT
           /\ lowO < lowX =>
                 answer.oScore = ONE_POINT /\ answer.xScore = HALF_POINT

NonClassicalCells == {c \in Cells : board[c] = NoPlayer}

\* C17: a draw is declared exactly when no qualifying line exists and fewer
\* than 2 cells are non-classical; with 8 classical cells, 1 free cell and
\* no qualifying line isDraw is true; isDraw is never true with a winner.
C17_DrawExactly ==
    Answered =>
        /\ answer.isDraw <=>
              /\ LinesOf("X") = {} /\ LinesOf("O") = {}
              /\ Cardinality(NonClassicalCells) < 2
        /\ (/\ Cardinality(NonClassicalCells) = 1
            /\ LinesOf("X") = {} /\ LinesOf("O") = {}) => answer.isDraw
        /\ answer.isDraw => answer.winner \notin PLAYERS

\* a verdict on a board of 8 classical cells and 1 free cell without a line
C17_Witness ==
    /\ Answered
    /\ Cardinality(NonClassicalCells) = 1
    /\ LinesOf("X") = {} /\ LinesOf("O") = {}
    /\ answer.isDraw

---------------------------------------------------------------------------
(* src/hooks/useGameState.js and src/hooks/useQuantumAPI.js: resetGame *)

ERROR_RESET_FAILURE == "ERROR_RESET_FAILURE"

\* the GameState snapshot that the engine's answers carry
GameState(brd, ms, ents, count, player) ==
    [op |-> "getState",
     board |-> brd,
     moves |-> ms,
     entanglements |-> ents,
     moveCount |-> count,
     currentPlayer |-> player]

\* what the client may hold when the player presses reset: a game in play
\* with up to two cells selected, a cycle awaiting its choice, a win of
\* either player on one of the lines, or a draw; with the error of an
\* earlier request still shown
ClientStates ==
    LET shown(status, winner, line) ==
            [createGameState EXCEPT !.status = status, !.winner = winner,
                                   !.winningLine = line]
        selections == {<<>>, <<4>>, <<4, 8>>}
        playing == {[gameState |-> shown(GAME_STATUS.PLAYING, NoPlayer, <<>>),
                     selectedSquares |-> sel] : sel \in selections}
        waiting == {[gameState |-> shown(GAME_STATUS.WAITING_COLLAPSE, NoPlayer, <<>>),
                     selectedSquares |-> <<>>]}
        won == {[gameState |-> shown(IF p = "X" THEN GAME_STATUS.X_WINS
                                     ELSE GAME_STATUS.O_WINS, p, WINNING_LINES[k]),
                 selectedSquares |-> <<>>] : p \in PLAYERS, k \in {8}}
        drawn == {[gameState |-> shown(GAME_STATUS.DRAW, NoPlayer, <<>>),
                   selectedSquares |-> <<>>]}
    IN {[gameState |-> c.gameState,
         selectedSquares |-> c.selectedSquares,
         apiGameState |-> NoGameState,
         userError |-> e,
         loading |-> FALSE,
         error |-> NoError] :
            c \in playing \cup waiting \cup won \cup drawn,
            e \in {"ERROR_SERVER_DOWN"}}

\* how a request to /game/new can end: answered with success, answered
\* without success, failed before the engine saw it, or carried out by the
\* engine with the answer lost
ResetOutcomes == {"ok", "refused", "failed", "lost"}

\* resetGame(): the error is cleared, the engine is asked for a new game,
\* and only a successful answer replaces the game state and the selection
ResetGame(outcome) ==
    /\ IF outcome \in {"ok", "lost"}
       THEN ResetEngine
       ELSE UNCHANGED <<gameVars, lastResult>>
    /\ client' =
          IF outcome = "ok"
          THEN [client EXCEPT
                   !.userError = NoError,
                   !.apiGameState =
                       GameState([c \in Cells |-> NoPlayer],
                                 createGameState.quantumMoves,
                                 createGameState.entanglements,
                                 createGameState.moveCount,
                                 createGameState.currentPlayer),
                   !.gameState = createGameState,
                   !.selectedSquares = <<>>]
          ELSE IF outcome = "refused"
          THEN [client EXCEPT !.userError = ERROR_RESET_FAILURE]
          ELSE [client EXCEPT !.userError = ERROR_RESET_FAILURE,
                              !.error = "Reset failed"]
    /\ UNCHANGED answer

InitReset ==
    /\ moves = createGameState.quantumMoves
    /\ board = [c \in Cells |-> NoPlayer]
    /\ entanglements = createGameState.entanglements
    /\ pendingCycle = createGameState.pendingCycle
    /\ collapseOptions = createGameState.collapseOptions
    /\ currentPlayer = createGameState.currentPlayer
    /\ moveCount = createGameState.moveCount
    /\ lastResult = Result("init", TRUE, EmptyOption, <<>>)
    /\ answer = NoAnswer
    /\ client \in ClientStates
    /\ calls = {}
    /\ sent = 0

\* the moves requested around a reset
ResetMoveInputs ==
    {PairOrder[i] : i \in 1 .. (IF NumResetPairs < Len(PairOrder)
                                THEN NumResetPairs ELSE Len(PairOrder))}

NextReset ==
    \/ NewGame /\ UNCHANGED wire
    \/ /\ \E squares \in ResetMoveInputs : MakeQuantumMove(squares[1], squares[2])
       /\ UNCHANGED wire
    \/ /\ \E option \in CollapseInputs : ChooseCollapse(option)
       /\ UNCHANGED wire
    \/ /\ \E outcome \in ResetOutcomes : ResetGame(outcome)
       /\ UNCHANGED wire

SpecReset == InitReset /\ [][NextReset]_vars

\* C18: from any reachable state newGame yields the initial state: empty
\* move list, no entanglements, no pending cycle or collapse options, all 9
\* cells empty, move count 0 and player X to move; on the client a
\* successful resetGame sets the status to PLAYING with no winner and an
\* empty selection.
C18_NewGameInitialState ==
    [][/\ (NewGame \/ ResetGame("ok")) =>
              /\ moves' = <<>> /\ entanglements' = {}
              /\ pendingCycle' = NoCycle /\ collapseOptions' = <<>>
              /\ \A c \in 0 .. 8 : board'[c] = NoPlayer
              /\ moveCount' = 0 /\ currentPlayer' = "X"
       /\ ResetGame("ok") =>
              /\ client'.gameState.status = "playing"
              /\ client'.gameState.winner = NoPlayer
              /\ client'.gameState.winningLine = <<>>
              /\ client'.selectedSquares = <<>>
              /\ client'.userError = NoError]_vars

\* after a reset that succeeded: the client holds the engine's fresh game
\* state, and shows a game in play with nothing selected
C18_Witness ==
    /\ lastResult.op = "new"
    /\ client.apiGameState # NoGameState
    /\ client.gameState.status = "playing"
    /\ client.selectedSquares = <<>>
    /\ moves = <<>>

---------------------------------------------------------------------------
(* The read-only operations, asked through src/hooks/useQuantumAPI.js *)

QueryOps == {"getState", "getWinner"}

\* how a GET request can end: answered, or not answered
QueryOutcomes == {"ok", "failed"}

\* getState() with only the unresolved moves in the move list
GetState_UnresolvedOnly ==
    /\ answer' = GameState(board, SelectSeq(moves, LAMBDA m : ~m.collapsed),
                           entanglements, moveCount, currentPlayer)
    /\ lastResult' = Result("getState", TRUE, EmptyOption, <<>>)
    /\ UNCHANGED gameVars

\* getState(): the snapshot of board, move list, entanglement list, move
\* count and current player
GetState ==
    /\ answer' = GameState(board, moves, entanglements, moveCount, currentPlayer)
    /\ lastResult' = Result("getState", TRUE, EmptyOption, <<>>)
    /\ UNCHANGED gameVars

\* api.getGameState(): the engine's answer, or null with the error kept
getGameState(outcome) ==
    IF outcome = "ok"
    THEN GetState /\ UNCHANGED client
    ELSE /\ answer' = NoAnswer
         /\ client' = [client EXCEPT !.error = "Failed to get game state"]
         /\ lastResult' = Result("getState", FALSE, EmptyOption, <<>>)
         /\ UNCHANGED gameVars

\* api.checkWinner(): the engine's verdict, or null with the error kept
checkWinner(outcome) ==
    IF outcome = "ok"
    THEN GetWinner /\ UNCHANGED client
    ELSE /\ answer' = NoAnswer
         /\ client' = [client EXCEPT !.error = "Failed to check winner"]
         /\ lastResult' = Result("getWinner", FALSE, EmptyOption, <<>>)
         /\ UNCHANGED gameVars

\* the moves requested before a query
QueryMoveInputs ==
    {PairOrder[i] : i \in 1 .. (IF NumQueryPairs < Len(PairOrder)
                                THEN NumQueryPairs ELSE Len(PairOrder))}

\* the engine is played, then asked; a query is followed by queries only
NextQuery ==
    \/ lastResult.op \notin QueryOps /\ NewGame /\ UNCHANGED wire
    \/ /\ lastResult.op \notin QueryOps
       /\ \E squares \in QueryMoveInputs : MakeQuantumMove(squares[1], squares[2])
       /\ UNCHANGED wire
    \/ /\ lastResult.op \notin QueryOps
       /\ \E option \in CollapseInputs : ChooseCollapse(option)
       /\ UNCHANGED wire
    \/ /\ \E outcome \in QueryOutcomes : getGameState(outcome)
       /\ UNCHANGED wire
    \/ /\ \E outcome \in QueryOutcomes : checkWinner(outcome)
       /\ UNCHANGED wire

SpecQuery == Init /\ [][NextQuery]_vars

---------------------------------------------------------------------------
\* C28: getSquare(moveId) returns the square assigned to moveId for every
\* move in the option's assignments, for every square 0..8 (square 0
\* included), and returns null only for a move that is not in the option.
C28_GetSquareReturnsAssignment ==
    \A k \in DOMAIN collapseOptions :
        LET option == collapseOptions[k]
        IN \A i \in IndicesOf(moves) :
              /\ moves[i].id \in DOMAIN option =>
                    getSquare(option, moves[i].id) = collapseOptions[k][moves[i].id]
              /\ getSquare(option, moves[i].id) = NULL =>
                    moves[i].id \notin DOMAIN option

\* the request names the unordered pair of an unresolved move
SamePairAsUnresolved(squares) ==
    \E i \in Unresolved : SquaresOf(moves[i]) = {squares[1], squares[2]}

\* C27: a quantum move whose unordered pair of squares is the pair of an
\* existing unresolved move is rejected with no state change, so no cycle
\* of only 2 moves is ever reported.
C27_DuplicatePairRejected ==
    [][/\ \A squares \in QueryMoveInputs :
             (SamePairAsUnresolved(squares)
              /\ MakeQuantumMove(squares[1], squares[2])) =>
                 /\ lastResult'.op = "move" /\ ~lastResult'.ok
                 /\ UNCHANGED gameVars
       /\ pendingCycle' # NoCycle => Len(pendingCycle'.moveIds) > 2]_vars

\* a move refused on an empty board with no cycle pending: its pair is the
\* pair of a move that is still unresolved
C27_Witness ==
    /\ lastResult.op = "move" /\ ~lastResult.ok
    /\ pendingCycle = NoCycle
    /\ \A c \in Cells : board[c] = NoPlayer
    /\ Len(moves) < MaxMoves
    /\ \E i \in Unresolved : moves[i].squares = <<0, 8>>

\* the valid complete assignments of the pending cycle and its stems: every
\* move of the cycle and some of the other unresolved moves get one of their
\* own squares, no two the same; a move outside the cycle is included
\* exactly when one of its squares is taken by another move, and then gets
\* its other square
ValidAssignments ==
    LET stems == {moves[i].id : i \in Unresolved} \ CycleIds
        own(D) == {[id \in D |-> MoveById(moves, id).squares[h[id]]] :
                      h \in [D -> {1, 2}]}
        valid(f) ==
            /\ \A id1, id2 \in DOMAIN f : id1 # id2 => f[id1] # f[id2]
            /\ \A id \in stems :
                  LET taken == TakenByOthers(f, id)
                      hit == SquaresOf(MoveById(moves, id)) \cap taken
                  IN IF id \in DOMAIN f THEN hit # {} ELSE hit = {}
    IN UNION {{f \in own(CycleIds \cup S) : valid(f)} : S \in SUBSET stems}

---------------------------------------------------------------------------
(* src/hooks/useGameState.js and src/hooks/useQuantumAPI.js: the client at  *)
(* work. A handler runs up to its await, the request is on its way, the     *)
(* engine answers it (or not), and the handler goes on with the answer.     *)

ERROR_SERVER_DOWN == "ERROR_SERVER_DOWN"
ERROR_MOVE_FAILURE == "ERROR_MOVE_FAILURE"
ERROR_COLLAPSE_FAILURE == "ERROR_COLLAPSE_FAILURE"
ERROR_NO_SQUARES == "ERROR_NO_SQUARES"

\* the pairs and the cells that the player of the client picks
ClientPairs ==
    {PairOrder[i] : i \in 1 .. (IF NumClientPairs < Len(PairOrder)
                                THEN NumClientPairs ELSE Len(PairOrder))}

ClientCells == UNION {{p[1], p[2]} : p \in ClientPairs}

\* what a request carries: the squares of a move, the option of a collapse
NoArgs == [squares |-> <<>>, option |-> EmptyOption]

\* no answer yet
NoResponse ==
    [null |-> TRUE, success |-> FALSE, game_state |-> NoGameState,
     cycle_detected |-> FALSE, collapse_options |-> <<>>,
     cycle_creator |-> NoPlayer, collapse_chooser |-> NoPlayer,
     verdict |-> NoAnswer, error |-> NoError]

\* a request that was sent: kind names the awaiting handler, held is what
\* the handler keeps across its awaits (the player to move after a collapse)
Call(kind, args, held) ==
    [kind |-> kind, args |-> args, phase |-> "sent", res |-> NoResponse,
     held |-> held]

\* the requests that change the game
ChangingKinds == {"move", "collapse", "reset"}

\* the board of the render: classical where the snapshot has a player
shownClassical(api, square) ==
    /\ "board" \in DOMAIN api
    /\ buildBoardFromAPI(api.board, api.moves)[square].state = "classical"

\* executeQuantumMove(squares) up to its await: the error is cleared; with
\* no square left the error is set and the winner is asked for, otherwise
\* api.makeQuantumMove sets loading, clears its error and sends the request
executeQuantumMove(c, squares) ==
    IF \A sq \in Cells : shownClassical(c.apiGameState, sq)
    THEN <<[c EXCEPT !.userError = ERROR_NO_SQUARES],
           Call("check", NoArgs, NoPlayer)>>
    ELSE <<[c EXCEPT !.userError = NoError, !.loading = TRUE, !.error = NoError],
           Call("move", [NoArgs EXCEPT !.squares = squares], NoPlayer)>>

\* selectSquare with the test of the status dropped
selectable_Always(c) == TRUE

\* if (gameState.status !== GAME_STATUS.PLAYING) return
selectable(c) == c.gameState.status = GAME_STATUS.PLAYING

\* the selection after a click: a selected square is dropped, a square is
\* added while fewer than two are selected, otherwise the older one goes
newSelection(selected, square) ==
    IF \E i \in DOMAIN selected : selected[i] = square
    THEN SelectSeq(selected, LAMBDA sq : sq # square)
    ELSE IF Len(selected) < MIN_SQUARES_FOR_MOVE THEN Append(selected, square)
    ELSE <<selected[2], square>>

\* selectSquare(square): nothing unless the game is in play and the square
\* is not classical; with two squares selected the move is requested
selectSquare(square) ==
    LET sel == newSelection(client.selectedSquares, square)
        go == executeQuantumMove([client EXCEPT !.selectedSquares = sel], sel)
    IN /\ UNCHANGED <<gameVars, lastResult, answer>>
       /\ IF ~selectable(client) \/ shownClassical(client.apiGameState, square)
          THEN UNCHANGED <<client, calls, sent>>
          ELSE IF Len(sel) = MIN_SQUARES_FOR_MOVE
          THEN /\ Cardinality(calls) < MaxInFlight /\ sent < MaxRequests
               /\ client' = go[1]
               /\ calls' = calls \cup {go[2]}
               /\ sent' = sent + 1
          ELSE /\ client' = [client EXCEPT !.selectedSquares = sel]
               /\ UNCHANGED wire

\* autoPlay(): in play and with two squares that are not classical, a move
\* on two of them is requested
autoPlay(square1, square2) ==
    LET go == executeQuantumMove(client, <<square1, square2>>)
    IN /\ UNCHANGED <<gameVars, lastResult, answer>>
       /\ IF /\ selectable(client)
             /\ ~shownClassical(client.apiGameState, square1)
             /\ ~shownClassical(client.apiGameState, square2)
          THEN /\ Cardinality(calls) < MaxInFlight /\ sent < MaxRequests
               /\ client' = go[1]
               /\ calls' = calls \cup {go[2]}
               /\ sent' = sent + 1
          ELSE UNCHANGED <<client, calls, sent>>

\* chooseCollapse(option) up to its await, for an option on display
chooseCollapse(option) ==
    /\ client.gameState.status = GAME_STATUS.WAITING_COLLAPSE
    /\ Cardinality(calls) < MaxInFlight /\ sent < MaxRequests
    /\ sent' = sent + 1
    /\ client' = [client EXCEPT !.userError = NoError, !.loading = TRUE,
                                !.error = NoError]
    /\ calls' = calls \cup {Call("collapse", [NoArgs EXCEPT !.option = option],
                                 NoPlayer)}
    /\ UNCHANGED <<gameVars, lastResult, answer>>

\* resetGame() up to its await
resetGame ==
    /\ Cardinality(calls) < MaxInFlight /\ sent < MaxRequests
    /\ sent' = sent + 1
    /\ client' = [client EXCEPT !.userError = NoError]
    /\ calls' = calls \cup {Call("reset", NoArgs, NoPlayer)}
    /\ UNCHANGED <<gameVars, lastResult, answer>>

\* how a request can end: answered by the engine, or failed before the
\* engine was reached (fetch rejects, or the status is not OK)
CallOutcomes == {"ok", "failed"}

\* err.message of the wrapper of useQuantumAPI that caught the failure
ApiErrorOf(kind) ==
    IF kind = "move" THEN "API request failed"
    ELSE IF kind = "collapse" THEN "Collapse request failed"
    ELSE IF kind = "reset" THEN "Reset failed"
    ELSE IF kind \in {"state", "load"} THEN "Failed to get game state"
    ELSE "Failed to check winner"

\* the engine's answer to a request, read after the engine has acted
ResponseOf(kind) ==
    LET snapshot == GameState(board', moves', entanglements', moveCount',
                              currentPlayer')
        answered == [NoResponse EXCEPT !.null = FALSE, !.success = TRUE]
    IN IF kind = "move"
       THEN [answered EXCEPT
                !.success = lastResult'.ok,
                !.game_state = IF lastResult'.ok THEN snapshot ELSE NoGameState,
                !.cycle_detected = lastResult'.ok /\ pendingCycle' # NoCycle,
                !.collapse_options = IF lastResult'.ok THEN collapseOptions' ELSE <<>>,
                !.cycle_creator = IF lastResult'.ok THEN pendingCycle'.triggerPlayer
                                  ELSE NoPlayer,
                !.collapse_chooser =
                    IF lastResult'.ok /\ pendingCycle' # NoCycle
                    THEN getCollapsePlayer(pendingCycle') ELSE NoPlayer,
                !.error = IF lastResult'.ok THEN NoError ELSE "ValidationError"]
       ELSE IF kind = "collapse"
       THEN [answered EXCEPT
                !.success = lastResult'.ok,
                !.game_state = IF lastResult'.ok THEN snapshot ELSE NoGameState,
                !.error = IF lastResult'.ok THEN NoError ELSE "StateError"]
       ELSE IF kind \in {"reset", "state", "load"}
       THEN [answered EXCEPT !.game_state = snapshot]
       ELSE [answered EXCEPT !.verdict = evaluate(board', moves')]

\* the engine takes a request, or the request fails; the request names the
\* operation and its arguments and nothing else
taken(call, outcome) ==
    IF outcome = "failed" \/ call.kind \notin ChangingKinds
    THEN UNCHANGED <<gameVars, lastResult, answer, client>>
    ELSE IF call.kind = "move"
    THEN MakeQuantumMove(call.args.squares[1], call.args.squares[2])
    ELSE IF call.kind = "collapse"
    THEN ChooseCollapse(call.args.option)
    ELSE ResetEngine /\ UNCHANGED <<answer, client>>

\* the call with what its wrapper will return
answeredBy(call, outcome) ==
    [call EXCEPT
        !.phase = "answered",
        !.res = IF outcome = "ok" THEN ResponseOf(call.kind)
                ELSE [NoResponse EXCEPT !.error = ApiErrorOf(call.kind)]]

\* a request that was sent reaches the engine, or fails
serve(call, outcome) ==
    /\ call.phase = "sent"
    /\ taken(call, outcome)
    /\ calls' = (calls \ {call}) \cup {answeredBy(call, outcome)}
    /\ UNCHANGED sent

\* the wrapper of useQuantumAPI returning: null with the error kept, or the
\* answer; makeQuantumMove and collapseMove also end loading
returned(c, call) ==
    [c EXCEPT !.error = IF call.res.null THEN call.res.error ELSE @,
              !.loading = IF call.kind \in {"move", "collapse"} THEN FALSE ELSE @]

\* the winner of a verdict shown: status, winner and line
shownWinner(gs, verdict) ==
    [gs EXCEPT !.status = IF verdict.winner = "X" THEN GAME_STATUS.X_WINS
                          ELSE GAME_STATUS.O_WINS,
               !.winner = verdict.winner,
               !.winningLine = verdict.winningLine]

\* setApiGameState(prev => ({...prev, winner, ...}))
withWinner(api, verdict) ==
    [winner |-> verdict.winner,
     is_simultaneous |-> verdict.isSimultaneous,
     x_score |-> verdict.xScore,
     o_score |-> verdict.oScore,
     winning_line |-> verdict.winningLine,
     x_winning_line |-> verdict.xWinningLine,
     o_winning_line |-> verdict.oWinningLine] @@ api

\* the failure branch with the selection left as it is
moveFailed_KeepsSelection(c, error) == [c EXCEPT !.userError = error]

\* setUserError(...); setSelectedSquares([])
moveFailed(c, error) == [c EXCEPT !.userError = error, !.selectedSquares = <<>>]

\* the options read under a name that the answer does not have
collapseOptionsOf_WrongKey(r) == <<>>

\* const collapseOptions = result.collapse_options || []
collapseOptionsOf(r) == r.collapse_options

\* executeQuantumMove past its await: <<the client, the requests it makes>>
afterMove(c, r) ==
    IF r.null
    THEN <<moveFailed(c, ERROR_SERVER_DOWN), {}>>
    ELSE IF ~r.success
    THEN <<moveFailed(c, IF r.error # NoError THEN r.error ELSE ERROR_MOVE_FAILURE),
           {}>>
    ELSE IF r.cycle_detected
    THEN LET open == UnresolvedMoves(r.game_state.moves)
         IN <<[c EXCEPT
                  !.apiGameState =
                      [collapseOptions |-> collapseOptionsOf(r),
                       cycleCreator |-> r.cycle_creator,
                       collapseChooser |-> r.collapse_chooser] @@ r.game_state,
                  !.gameState =
                      [@ EXCEPT
                          !.status = GAME_STATUS.WAITING_COLLAPSE,
                          !.currentPlayer =
                              IF r.collapse_chooser # NoPlayer THEN r.collapse_chooser
                              ELSE r.game_state.currentPlayer,
                          !.collapseOptions = collapseOptionsOf(r),
                          !.pendingCycle =
                              [NoCycle EXCEPT
                                  !.moveIds = [i \in DOMAIN open |-> open[i].id],
                                  !.triggerPlayer = r.cycle_creator]],
                  !.selectedSquares = <<>>], {}>>
    ELSE <<[c EXCEPT
               !.apiGameState = r.game_state,
               !.gameState = [@ EXCEPT !.status = GAME_STATUS.PLAYING,
                                       !.currentPlayer = r.game_state.currentPlayer],
               !.selectedSquares = <<>>],
           {Call("check", NoArgs, NoPlayer)}>>

\* chooseCollapse past the await of collapseMove
afterCollapse(c, r) ==
    IF r.null
    THEN <<[c EXCEPT !.userError = ERROR_COLLAPSE_FAILURE], {}>>
    ELSE IF ~r.success
    THEN <<[c EXCEPT !.userError = IF r.error # NoError THEN r.error
                                   ELSE ERROR_COLLAPSE_FAILURE], {}>>
    ELSE <<[c EXCEPT !.apiGameState = r.game_state],
           {Call("winner", NoArgs, r.game_state.currentPlayer)}>>

\* chooseCollapse past the await of checkWinner
afterCollapseWinner(c, r, held) ==
    IF ~r.null /\ r.success /\ r.verdict.winner # NoPlayer
    THEN <<[c EXCEPT
               !.gameState = [shownWinner(@, r.verdict) EXCEPT
                                 !.collapseOptions = <<>>,
                                 !.pendingCycle = NoCycle],
               !.apiGameState = withWinner(@, r.verdict)], {}>>
    ELSE IF ~r.null /\ r.success /\ r.verdict.isDraw
    THEN <<[c EXCEPT
               !.gameState = [@ EXCEPT !.status = GAME_STATUS.DRAW,
                                       !.winner = NoPlayer,
                                       !.collapseOptions = <<>>,
                                       !.pendingCycle = NoCycle]], {}>>
    ELSE <<c, {Call("state", NoArgs, held)}>>

\* chooseCollapse past the await of getGameState: the game goes on
afterCollapseState(c, r, held) ==
    <<[c EXCEPT
          !.apiGameState = IF ~r.null /\ r.success THEN r.game_state ELSE @,
          !.gameState = [@ EXCEPT !.status = GAME_STATUS.PLAYING,
                                  !.currentPlayer = held,
                                  !.collapseOptions = <<>>,
                                  !.pendingCycle = NoCycle]],
      {Call("check", NoArgs, NoPlayer)}>>

\* checkWinner() of useGameState past its await; TRUE when the game ended
afterCheckWinner(c, r) ==
    IF ~r.null /\ r.success /\ r.verdict.winner # NoPlayer
    THEN <<[c EXCEPT !.gameState = shownWinner(@, r.verdict),
                     !.apiGameState = withWinner(@, r.verdict)], TRUE>>
    ELSE IF ~r.null /\ r.success /\ r.verdict.isDraw
    THEN <<[c EXCEPT !.gameState = [@ EXCEPT !.status = GAME_STATUS.DRAW,
                                            !.winner = NoPlayer]], TRUE>>
    ELSE <<c, FALSE>>

\* checkGameEnd() past its first await: with fewer than two squares that are
\* not classical the winner is asked for once more
afterCheckGameEnd(c, r) ==
    LET checked == afterCheckWinner(c, r)
        emptyCount == Cardinality({sq \in Cells :
                                      ~shownClassical(c.apiGameState, sq)})
    IN <<checked[1],
         IF ~checked[2] /\ emptyCount < MIN_SQUARES_FOR_MOVE
         THEN {Call("finalCheck", NoArgs, NoPlayer)} ELSE {}>>

\* resetGame past its await
afterReset(c, r) ==
    IF r.null
    THEN <<[c EXCEPT !.userError = ERROR_RESET_FAILURE], {}>>
    ELSE IF ~r.success
    THEN <<[c EXCEPT !.userError = IF r.error # NoError THEN r.error
                                   ELSE ERROR_RESET_FAILURE], {}>>
    ELSE <<[c EXCEPT !.apiGameState = r.game_state,
                     !.gameState = createGameState,
                     !.selectedSquares = <<>>], {}>>

\* loadGameState of the mount effect past the await of getGameState
afterLoad(c, r) ==
    IF ~r.null /\ r.success
    THEN <<[c EXCEPT !.apiGameState = r.game_state],
           {Call("loadWinner", NoArgs, NoPlayer)}>>
    ELSE <<c, {}>>

\* loadGameState past the await of checkWinner
afterLoadWinner(c, r) ==
    IF ~r.null /\ r.success /\ r.verdict.winner # NoPlayer
    THEN <<[c EXCEPT !.gameState = shownWinner(@, r.verdict)], {}>>
    ELSE <<c, {}>>

\* the handler that awaits the call goes on with its answer
after(c, call) ==
    IF call.kind = "move" THEN afterMove(c, call.res)
    ELSE IF call.kind = "collapse" THEN afterCollapse(c, call.res)
    ELSE IF call.kind = "winner" THEN afterCollapseWinner(c, call.res, call.held)
    ELSE IF call.kind = "state" THEN afterCollapseState(c, call.res, call.held)
    ELSE IF call.kind = "check" THEN afterCheckGameEnd(c, call.res)
    ELSE IF call.kind = "finalCheck"
    THEN <<afterCheckWinner(c, call.res)[1], {}>>
    ELSE IF call.kind = "reset" THEN afterReset(c, call.res)
    ELSE IF call.kind = "load" THEN afterLoad(c, call.res)
    ELSE afterLoadWinner(c, call.res)

resume(call) ==
    LET next == after(returned(client, call), call)
    IN /\ call.phase = "answered"
       /\ client' = next[1]
       /\ calls' = (calls \ {call}) \cup next[2]
       /\ UNCHANGED <<gameVars, lastResult, answer, sent>>

\* the hook is mounted and its effect has asked for the game state
InitClient ==
    /\ moves = createGameState.quantumMoves
    /\ board = [c \in Cells |-> NoPlayer]
    /\ entanglements = createGameState.entanglements
    /\ pendingCycle = createGameState.pendingCycle
    /\ collapseOptions = createGameState.collapseOptions
    /\ currentPlayer = createGameState.currentPlayer
    /\ moveCount = createGameState.moveCount
    /\ lastResult = Result("init", TRUE, EmptyOption, <<>>)
    /\ answer = NoAnswer
    /\ client = useGameState
    /\ calls = {Call("load", NoArgs, NoPlayer)}
    /\ sent = 0

NextClient ==
    \/ \E square \in ClientCells : selectSquare(square)
    \/ \E squares \in ClientPairs : autoPlay(squares[1], squares[2])
    \/ \E option \in Range(client.gameState.collapseOptions) : chooseCollapse(option)
    \/ resetGame
    \/ \E call \in calls, outcome \in CallOutcomes : serve(call, outcome)
    \/ \E call \in calls : resume(call)

SpecClient == InitClient /\ [][NextClient]_vars

---------------------------------------------------------------------------
\* the requests for a move, a collapse or a reset that are not answered yet
Unanswered == {call \in calls : call.kind \in ChangingKinds /\ call.phase = "sent"}

\* C21: requests of one session are serialized: a move, a collapse choice
\* and a reset are never in progress at the same time against the same game
\* state; the client never issues a second makeQuantumMove, collapseMove or
\* resetGame request while an earlier one has not been answered.
C21_RequestsSerialized ==
    [][\A call \in calls' \ calls :
          (call \in Unanswered') => Unanswered = {}]_vars

\* the client shows a cycle awaiting its choice
WaitingCollapse == client.gameState.status = GAME_STATUS.WAITING_COLLAPSE

\* C26: while a cycle is pending no new quantum move is accepted: the move
\* list does not grow; on the client selectSquare and autoPlay do nothing
\* and send no move request while the status is WAITING_COLLAPSE.
C26_NoMoveWhilePending ==
    [][/\ pendingCycle # NoCycle => Len(moves') <= Len(moves)
       /\ WaitingCollapse =>
             /\ \A call \in calls' \ calls :
                   ~(call.kind = "move" /\ call.phase = "sent")
             /\ \A square \in ClientCells :
                   selectSquare(square) => UNCHANGED <<client, calls>>
             /\ \A squares \in ClientPairs :
                   autoPlay(squares[1], squares[2]) => UNCHANGED <<client, calls>>]_vars

\* a cycle is pending and shown, and a move that was requested before it
\* showed has been refused by the engine
C26_Witness ==
    /\ WaitingCollapse
    /\ pendingCycle # NoCycle
    /\ lastResult.op = "move" /\ ~lastResult.ok
    /\ \E call \in calls :
          /\ call.kind = "move" /\ call.phase = "answered"
          /\ ~call.res.null /\ ~call.res.success

\* the move requests whose handler went on in this step with a failure: no
\* answer, or an answer without success
FailedMoves ==
    {call \in calls \ calls' :
        /\ call.kind = "move" /\ call.phase = "answered"
        /\ call.res.null \/ ~call.res.success}

\* C29: when a move request fails on the client (no response, success =
\* false, or an exception) the displayed game state (API snapshot, board,
\* status, current player, collapse options) is left unchanged, the
\* selection is cleared and a user error is set.
C29_FailedMoveKeepsState ==
    [][FailedMoves # {} =>
          /\ client'.apiGameState = client.apiGameState
          /\ \A sq \in Cells :
                shownClassical(client'.apiGameState, sq)
                    = shownClassical(client.apiGameState, sq)
          /\ client'.gameState = client.gameState
          /\ client'.selectedSquares = <<>>
          /\ client'.userError # NoError]_vars

\* a move failed with a game on display: the error is shown, nothing is
\* selected, and the snapshot still has the moves made before
C29_Witness ==
    /\ client.userError \in {ERROR_SERVER_DOWN, "ValidationError"}
    /\ client.selectedSquares = <<>>
    /\ "moves" \in DOMAIN client.apiGameState
    /\ Len(client.apiGameState.moves) > 0
    /\ \A call \in calls : call.kind # "move"

\* the collapse requests whose handler went on in this step with a failure
FailedCollapses ==
    {call \in calls \ calls' :
        /\ call.kind = "collapse" /\ call.phase = "answered"
        /\ call.res.null \/ ~call.res.success}

\* the handlers that went on in this step past a successful collapse (to
\* the winner, the draw or the next turn) or past a successful reset
CollapsedOrReset ==
    {call \in calls \ calls' :
        /\ call.phase = "answered"
        /\ \/ call.kind \in {"winner", "state"}
           \/ call.kind = "reset" /\ ~call.res.null /\ call.res.success}

\* C30: when a collapse request fails on the client the status stays
\* WAITING_COLLAPSE with the same collapse options and pending cycle, and
\* the board is unchanged; only a successful collapse or a reset leaves
\* WAITING_COLLAPSE.
C30_OnlyCollapseLeavesWaiting ==
    [][/\ FailedCollapses # {} =>
             /\ client'.gameState = client.gameState
             /\ client'.apiGameState = client.apiGameState
       /\ (WaitingCollapse /\ ~WaitingCollapse') => CollapsedOrReset # {}]_vars

---------------------------------------------------------------------------
(* src/hooks/useQuantumAPI.js used by several clients: each session is a    *)
(* hook of its own, and calls holds what each got from its last call        *)

Sessions == 1 .. NumSessions

\* what the hook of the session got from its last call
LastOf(session) == {call \in calls : call.held = session}

\* a wrapper of useQuantumAPI called in a session, from the request to the
\* return: the request goes to the one address of the operation
sessionCall(session, kind, args, outcome) ==
    LET call == Call(kind, args, session)
    IN /\ taken(call, outcome)
       /\ calls' = (calls \ LastOf(session)) \cup {answeredBy(call, outcome)}
       /\ UNCHANGED sent

NextSessions ==
    \/ \E session \in Sessions, squares \in ClientPairs, outcome \in CallOutcomes :
          sessionCall(session, "move", [NoArgs EXCEPT !.squares = squares], outcome)
    \/ \E session \in Sessions, option \in Range(collapseOptions),
          outcome \in CallOutcomes :
          sessionCall(session, "collapse", [NoArgs EXCEPT !.option = option], outcome)
    \/ \E session \in Sessions, outcome \in CallOutcomes :
          sessionCall(session, "reset", NoArgs, outcome)
    \/ \E session \in Sessions, outcome \in CallOutcomes :
          sessionCall(session, "state", NoArgs, outcome)

SpecSessions == Init /\ [][NextSessions]_vars

\* the session has asked for the game state and got it, and has called
\* nothing since
Observed(session) ==
    {call.res.game_state : call \in {c \in LastOf(session) :
                                        c.kind = "state" /\ ~c.res.null}}

\* C22: independent game sessions share no mutable state: any operation
\* (move, collapse, reset) performed by one session leaves the game state
\* observed by every other session unchanged.
C22_SessionsIndependent ==
    [][\A session \in Sessions :
          (Observed(session) # {} /\ Observed(session)' # {}) =>
              Observed(session)' = Observed(session)]_vars

---------------------------------------------------------------------------
\* the last call of collapse ended in its throw: collapse has no other way
\* to fail
Threw == lastResult.op = "collapseCall" /\ ~lastResult.ok

\* the wrappers of useQuantumAPI that failed have returned null with the
\* message of the error
FailuresReturned ==
    \A call \in calls :
        (call.phase = "answered" /\ call.res.null) => call.res.error # NoError

\* C25: no error crosses the interface as an exception: every failure is
\* returned as a data result; each wrapper of the client API layer returns
\* null and records an error message on a failure, and never throws to its
\* caller.
C25_NoExceptionCrosses == FailuresReturned /\ ~Threw

---------------------------------------------------------------------------
\* the player of the move that closed the last cycle
CycleCloser == moves[Len(moves)].player

---------------------------------------------------------------------------
\* the selection of a client state: at most two squares, all distinct, none
\* classical on the board it displays
SelectionOk(c) ==
    /\ Len(c.selectedSquares) <= 2
    /\ \A i, j \in DOMAIN c.selectedSquares :
          i # j => c.selectedSquares[i] # c.selectedSquares[j]
    /\ \A i \in DOMAIN c.selectedSquares :
          ~shownClassical(c.apiGameState, c.selectedSquares[i])

\* a click on the square that was taken up in this step
Clicked(square) == selectSquare(square) /\ ~UNCHANGED <<client, calls, sent>>

\* C32: after any sequence of square clicks, the client's selection holds
\* at most 2 squares, all distinct and none classical on the displayed
\* board; clicking a selected square deselects it, and a move request is
\* sent exactly when a click brings the selection to 2 squares, with those
\* two distinct squares.
C32_SelectionAndRequests ==
    [][/\ SelectionOk(client')
       /\ \A square \in ClientCells : Clicked(square) =>
             /\ (\E i \in DOMAIN client.selectedSquares :
                    client.selectedSquares[i] = square)
                   => \A i \in DOMAIN client'.selectedSquares :
                         client'.selectedSquares[i] # square
             /\ (sent' = sent + 1) <=> (Len(client'.selectedSquares) = 2)
             /\ (sent' = sent + 1) =>
                   \E call \in calls' :
                      /\ call.kind = "move" /\ call.phase = "sent"
                      /\ call.args.squares = client'.selectedSquares
                      /\ call.args.squares[1] # call.args.squares[2]]_vars

---------------------------------------------------------------------------
\* the client shows a cycle that awaits its choice, with the moves of it
ShowsCycle == WaitingCollapse /\ client.gameState.pendingCycle.moveIds # <<>>

\* C33: a pending cycle is never lost by the client: once a move response
\* with cycle_detected has put the status to WAITING_COLLAPSE, the status
\* stays WAITING_COLLAPSE with non-empty pendingCycle until a collapse
\* succeeds or the game is reset, under every interleaving and ordering of
\* responses to move requests and of the delayed game-end checks.
C33_PendingCycleKept ==
    [][ShowsCycle => (ShowsCycle' \/ CollapsedOrReset # {})]_vars

---------------------------------------------------------------------------
(* The client at the end of a game. The engine keeps its game between the   *)
(* visits of its clients: three moves were made through an earlier client   *)
(* before the engine takes the first request of the hook that is mounted    *)
(* now, and the game is then played to its end through this hook            *)

\* the moves of the earlier client: X1 and X2 on the top row, O1 below
EarlierMoves == << <<0, 1>>, <<3, 4>>, <<1, 2>> >>

\* the pairs that the player of this client picks: the move of O, and the
\* move of X that closes the cycle on the top row
EndPairs == {<<4, 5>>, <<2, 0>>}

\* the cells that are clicked: those of the closing move
EndCells == {2, 0}

\* api.makeQuantumMove of the earlier client, answered before the mount
\* effect of this one is served
earlierMove ==
    /\ calls = {Call("load", NoArgs, NoPlayer)}
    /\ Len(moves) < Len(EarlierMoves)
    /\ MakeQuantumMove(EarlierMoves[Len(moves) + 1][1], EarlierMoves[Len(moves) + 1][2])
    /\ UNCHANGED wire

NextEnd ==
    \/ earlierMove
    \/ \E square \in EndCells : selectSquare(square)
    \/ \E squares \in EndPairs : autoPlay(squares[1], squares[2])
    \/ \E option \in Range(client.gameState.collapseOptions) : chooseCollapse(option)
    \/ resetGame
    \/ \E call \in calls, outcome \in CallOutcomes : serve(call, outcome)
    \/ \E call \in calls : resume(call)

SpecEnd == InitClient /\ [][NextEnd]_vars

---------------------------------------------------------------------------
\* a game in play that nobody has won
Fresh(c) ==
    /\ c.gameState.status = GAME_STATUS.PLAYING
    /\ c.gameState.winner = NoPlayer
    /\ c.gameState.winningLine = <<>>

\* the handler of resetGame went on in this step with a successful answer
ResetSucceeded ==
    \E call \in calls \ calls' :
        /\ call.kind = "reset" /\ call.phase = "answered"
        /\ ~call.res.null /\ call.res.success

\* the client holds the snapshot of the new game and the engine has taken
\* no move of it yet
NewGameShown ==
    /\ moves = <<>>
    /\ client.apiGameState =
          GameState([c \in Cells |-> NoPlayer], createGameState.quantumMoves,
                    createGameState.entanglements, createGameState.moveCount,
                    createGameState.currentPlayer)

\* C34: after resetGame succeeds the client shows a fresh game (status
\* PLAYING, no winner, no winning line) and stays so until the next move: a
\* winner or draw answer that belongs to the previous game (the check
\* awaited inside chooseCollapse, or a delayed checkGameEnd timer) never
\* ends the new game.
C34_ResetGivesFreshGame ==
    [][/\ ResetSucceeded => Fresh(client')
       /\ (Fresh(client) /\ NewGameShown /\ moves' = <<>>) => Fresh(client')]_vars

---------------------------------------------------------------------------
\* isGameOver of the hook
GameOver(c) ==
    c.gameState.status \in {GAME_STATUS.X_WINS, GAME_STATUS.O_WINS, GAME_STATUS.DRAW}

\* C35: game over is absorbing on the client: once the status is X_WINS,
\* O_WINS or DRAW, selectSquare and autoPlay send no move request and the
\* status, winner and winning line do not change until resetGame succeeds.
C35_GameOverAbsorbing ==
    [][GameOver(client) =>
          /\ \A square \in EndCells :
                selectSquare(square) => UNCHANGED <<client, calls, sent>>
          /\ \A squares \in EndPairs :
                autoPlay(squares[1], squares[2]) => UNCHANGED <<client, calls, sent>>
          /\ \A call \in calls' \ calls :
                ~(call.kind = "move" /\ call.phase = "sent")
          /\ \/ ResetSucceeded
             \/ /\ client'.gameState.status = client.gameState.status
                /\ client'.gameState.winner = client.gameState.winner
                /\ client'.gameState.winningLine = client.gameState.winningLine]_vars

---------------------------------------------------------------------------
\* what the client shows once it has handled the answer to the move that
\* the engine took in this step
ShownAfterMove == afterMove(client, ResponseOf("move"))[1].gameState

\* C36: whenever makeQuantumMove reports cycleDetected, the returned
\* collapseOptions list is non-empty, so the game never waits for a
\* collapse choice that cannot be made (the client never stays in
\* WAITING_COLLAPSE with zero options).
C36_CycleHasOptions ==
    [][(MoveDone' /\ moves' # moves /\ pendingCycle' # NoCycle) =>
          /\ ResponseOf("move").cycle_detected
          /\ ResponseOf("move").collapse_options # <<>>
          /\ collapseOptions' # <<>>
          /\ ShownAfterMove.status = GAME_STATUS.WAITING_COLLAPSE
          /\ ShownAfterMove.collapseOptions # <<>>
          /\ ShownAfterMove.collapseOptions = collapseOptions']_vars

\* a cycle of three moves was reported while two more moves are open, and
\* its options are on offer
C36_Witness ==
    /\ MoveDone
    /\ pendingCycle # NoCycle
    /\ Len(pendingCycle.moveIds) = 3
    /\ Cardinality(Unresolved) = 5
    /\ Len(collapseOptions) >= 2

---------------------------------------------------------------------------
\* the cells that chains of the moves with indices S join to the cells C: a
\* move joins its two squares
RECURSIVE CellsJoinedTo(_, _)
CellsJoinedTo(C, S) ==
    LET touching == {i \in S : SquaresOf(moves[i]) \cap C # {}}
        more == UNION {SquaresOf(moves[i]) : i \in touching} \ C
    IN IF more = {} THEN C ELSE CellsJoinedTo(C \cup more, S)

\* the two squares of the last move were joined to each other by the moves
\* that were unresolved when it was inserted
AlreadyConnected ==
    LastMove.squares[2] \in
        CellsJoinedTo({LastMove.squares[1]}, Unresolved \ {Len(moves)})

---------------------------------------------------------------------------
(* The late game: an opening of four moves closes a cycle on the cells     *)
(* 0..3; after it the players move on the cells that are left, and every   *)
(* pending cycle is collapsed by one of its options                        *)

\* the first four moves, as (square1, square2)
LateOpening == << <<0, 1>>, <<1, 2>>, <<2, 3>>, <<3, 0>> >>

\* the cells the opening leaves untouched
LateCells == {4, 5, 6, 7, 8}

\* the pairs requested after the opening: every pair of the cells left, and
\* one pair with a cell of the opening
LatePairs == {p \in LateCells \X LateCells : p[1] < p[2]} \cup {<<0, 4>>}

\* makeQuantumMove with the next pair of the opening
openingMove ==
    /\ Len(moves) < Len(LateOpening)
    /\ insertMove(LateOpening[Len(moves) + 1][1], LateOpening[Len(moves) + 1][2])
    /\ UNCHANGED wire

\* makeQuantumMove once the opening is played
lateMove(square1, square2) ==
    /\ Len(moves) >= Len(LateOpening)
    /\ insertMove(square1, square2)
    /\ UNCHANGED wire

NextLate ==
    \/ openingMove
    \/ \E squares \in LatePairs : lateMove(squares[1], squares[2])
    \/ /\ \E option \in Range(collapseOptions) : ChooseCollapse(option)
       /\ UNCHANGED wire

SpecLate == Init /\ [][NextLate]_vars

\* the game is neither won nor drawn
GameOpen ==
    /\ evaluate(board, moves).winner = NoPlayer
    /\ ~evaluate(board, moves).isDraw

\* the requests makeQuantumMove accepts when no cycle is pending
LegalMoves == {squares \in Cells \X Cells : MoveIsValid(moves, board, squares)}

\* C39: every game terminates: from any reachable state where no cycle is
\* pending and the game is not won or drawn a legal quantum move exists (so
\* play goes on until a win or a draw), and there are never more than 9
\* unresolved moves at the same time.
C39_GameTerminates ==
    /\ Cardinality(Unresolved) <= BOARD_SIZE
    /\ (pendingCycle = NoCycle /\ GameOpen) => LegalMoves # {}

====
